---- MODULE Spec2Model ----
(***************************************************************************)
(* Orbit: the data-access / error-translation layer of a command-line      *)
(* client for Cosmos DB.  The model covers                                 *)
(*   - CosmosContainerRepository (src/orbit/repositories/cosmos.py): its   *)
(*     nine operations, their local validation, the remote calls they      *)
(*     issue and the translation of SDK exceptions to domain exceptions;   *)
(*   - RepositoryFactory (src/orbit/factory.py): the lazily created,       *)
(*     cached client;                                                      *)
(*   - ConnectionStringAuthStrategy (src/orbit/auth/strategy.py).          *)
(* Strings are sequences of one-character strings, so that the regular     *)
(* expression, startswith, lower and the substring test are computed.      *)
(* The database service is the environment: it keeps the containers and    *)
(* the items, answers each remote call from them, and may fail any call    *)
(* with an injected SDK exception.                                         *)
(***************************************************************************)
EXTENDS Integers, Sequences, FiniteSets, TLC

VARIABLES
    containers,   \* service: the containers of the database, records [id, pk]
    items,        \* service: the stored items, records [c, id, pk, body]
    last,         \* the last repository invocation: arguments and outcome
    settings,     \* the OrbitSettings the factories are constructed with
    client,       \* factory -> its cached client handle (None: uninitialized)
    providerCalls,\* factory -> number of provider invocations it has made
    provided,     \* the handles the provider created: records [factory, handle]
    repos,        \* repositories handed out: records [factory, client]
    flast,        \* the last factory request and its outcome
    plast,        \* the last call of the provider's get_client and its outcome
    cli,          \* the last command of the command line and its outcome
    th            \* the threads that share one factory: where each is, what it holds

vars == <<containers, items, last, settings, client, providerCalls, provided, repos, flast,
          plast, cli, th>>

repoVars == <<containers, items, last>>
factoryVars == <<settings, client, providerCalls, provided, repos, flast, plast>>
otherVars == <<cli, th>>

-----------------------------------------------------------------------------
(* Strings *)

UpperChars == <<"A","B","C","D","E","F","G","H","I","J","K","L","M",
                "N","O","P","Q","R","S","T","U","V","W","X","Y","Z">>
LowerChars == <<"a","b","c","d","e","f","g","h","i","j","k","l","m",
                "n","o","p","q","r","s","t","u","v","w","x","y","z">>
DigitChars == <<"0","1","2","3","4","5","6","7","8","9">>

Range(s) == { s[i] : i \in 1..Len(s) }

\* A character outside printable ASCII is written by its code point, "U+212A"
\* for the Kelvin sign.  The capitals outside ASCII that the strings of the
\* model are drawn from, each with what str.lower() makes of it: one character
\* for most, two for the dotted capital I (U+0130)
UnicodeLower ==
    [c \in {"U+00C9", "U+212A", "U+212B", "U+0130"} |->
        CASE c = "U+00C9" -> <<"U+00E9">>
          [] c = "U+212A" -> <<"k">>
          [] c = "U+212B" -> <<"U+00E5">>
          [] c = "U+0130" -> <<"i", "U+0307">>]

\* str.lower() on one character (a string of one or two characters), then on
\* a string
LowerChar(ch) ==
    IF ch \in Range(UpperChars)
    THEN <<LowerChars[CHOOSE i \in 1..Len(UpperChars) : UpperChars[i] = ch]>>
    ELSE IF ch \in DOMAIN UnicodeLower THEN UnicodeLower[ch]
    ELSE <<ch>>

RECURSIVE Lower(_)
Lower(s) == IF s = <<>> THEN <<>> ELSE LowerChar(Head(s)) \o Lower(Tail(s))

\* Python's  sub in s
Contains(s, sub) ==
    \E i \in 0..(Len(s) - Len(sub)) :
        \A j \in 1..Len(sub) : s[i + j] = sub[j]

\* Python's  s.startswith(p)
StartsWith(s, p) ==
    /\ Len(s) >= Len(p)
    /\ \A j \in 1..Len(p) : s[j] = p[j]

Repeat(ch, n) == [i \in 1..n |-> ch]

-----------------------------------------------------------------------------
(* Validation: cosmos.py 37, 175-203 *)

\* The bound {1,255} of CONTAINER_NAME_PATTERN
MaxNameLen == 255

\* The character class [a-zA-Z0-9-]
NameChars == Range(LowerChars) \cup Range(UpperChars) \cup Range(DigitChars) \cup {"-"}

\* CONTAINER_NAME_PATTERN.match(name) for r"^[a-zA-Z0-9-]{1,255}$".  Python's $
\* matches at the end of the string and also just before a line break that
\* ends the string, so the body is the name without one trailing "\n".
CONTAINER_NAME_PATTERN_match(name) ==
    LET body == IF Len(name) >= 1 /\ name[Len(name)] = "\n"
                THEN SubSeq(name, 1, Len(name) - 1)
                ELSE name
    IN  /\ Len(body) >= 1
        /\ Len(body) <= MaxNameLen
        /\ \A i \in 1..Len(body) : body[i] \in NameChars

\* A path check that only rejects the empty path (a mutant).
PathNonEmpty(path) == Len(path) >= 1

\* path.startswith("/") of _validate_partition_key_path
PathStartsWithSlash(path) == StartsWith(path, <<"/">>)

-----------------------------------------------------------------------------
(* Exceptions *)

\* The SDK's exception classes.  The first three are HTTP-response errors
\* (the two named ones are subclasses of CosmosHttpResponseError); the last
\* is a transport failure without an HTTP response (connection refused,
\* timeout, DNS), which is not a CosmosHttpResponseError.
SdkHttpClasses == {"SdkResourceExistsError", "SdkResourceNotFoundError",
                   "CosmosHttpResponseError"}
SdkClasses == SdkHttpClasses \cup {"ServiceRequestError"}

\* The Error Taxonomy: orbit/exceptions.py, and ValueError for InvalidInput
Taxonomy == {"CosmosConnectionError", "CosmosAuthError",
             "CosmosResourceNotFoundError", "CosmosResourceExistsError",
             "CosmosQuotaExceededError", "CosmosInvalidPartitionKeyError",
             "CosmosItemNotFoundError", "CosmosPartitionKeyMismatchError",
             "CosmosDuplicateItemError", "ValueError"}

SdkError(cls, status, message) == [cls |-> cls, status |-> status, message |-> message]

\* What an invocation ends with.  kind "ok": returned normally, with value.
\* Otherwise kind is the class of the exception raised; status is the status
\* code its message embeds (0: none).
Returned(value) == [kind |-> "ok", status |-> 0, value |-> value]
Raised(kind, status) == [kind |-> kind, status |-> status, value |-> <<>>]

\* An exception the except clauses of an operation do not catch leaves the
\* operation as it is.
Propagated(e) == Raised(e.cls, 0)

\* logger.info(...), logger.error(...): one record, its level and what it says
Log(level, event) == <<level, event>>

-----------------------------------------------------------------------------
(* The database service (the environment of the repository) *)

\* No injected failure: the service answers the call from its state.
NoFault == [cls |-> "none", status |-> 0, message |-> <<>>]

MsgConflict == <<"C","o","n","f","l","i","c","t">>
MsgNotFound == <<"N","o","t","F","o","u","n","d">>

\* The service as one invocation sees it: the containers, the items, the
\* remote calls the invocation has made so far, and the arguments of the
\* queries among them.
Db(cs, its) == [containers |-> cs, items |-> its, calls |-> <<>>, queries |-> <<>>]
Called(db, call) == [db EXCEPT !.calls = Append(@, call)]

\* container.query_items(query="SELECT * FROM c", max_item_count=...)
Query(max_item_count) == [query |-> "SELECT * FROM c", max_item_count |-> max_item_count]

\* The answer to one remote call: ok with a body, or an SDK exception; and the
\* service after the call.
Answer(body, db) == [ok |-> TRUE, exc |-> NoFault, body |-> body, db |-> db]
Failure(e, db) == [ok |-> FALSE, exc |-> e, body |-> <<>>, db |-> db]

ExistsError == SdkError("SdkResourceExistsError", 409, MsgConflict)
NotFoundError == SdkError("SdkResourceNotFoundError", 404, MsgNotFound)

HasContainer(cs, name) == \E c \in cs : c.id = name
ContainerOf(cs, name) == CHOOSE c \in cs : c.id = name
HasItem(its, c, id, pk) == \E i \in its : i.c = c /\ i.id = id /\ i.pk = pk
ItemOf(its, c, id, pk) == CHOOSE i \in its : i.c = c /\ i.id = id /\ i.pk = pk

\* database.list_containers()
SvcListContainers(db0, fault) ==
    LET db == Called(db0, "list_containers") IN
    IF fault.cls # "none" THEN Failure(fault, db)
    ELSE Answer(db.containers, db)

\* database.create_container(id, partition_key, offer_throughput)
SvcCreateContainer(db0, name, path, fault) ==
    LET db == Called(db0, "create_container") IN
    IF fault.cls # "none" THEN Failure(fault, db)
    ELSE IF HasContainer(db.containers, name) THEN Failure(ExistsError, db)
    ELSE Answer([id |-> name, pk |-> path],
                [db EXCEPT !.containers = @ \cup {[id |-> name, pk |-> path]}])

\* container.read()
SvcReadContainer(db0, name, fault) ==
    LET db == Called(db0, "read") IN
    IF fault.cls # "none" THEN Failure(fault, db)
    ELSE IF ~HasContainer(db.containers, name) THEN Failure(NotFoundError, db)
    ELSE Answer(ContainerOf(db.containers, name), db)

\* database.delete_container(name): the container goes with its items
SvcDeleteContainer(db0, name, fault) ==
    LET db == Called(db0, "delete_container") IN
    IF fault.cls # "none" THEN Failure(fault, db)
    ELSE IF ~HasContainer(db.containers, name) THEN Failure(NotFoundError, db)
    ELSE Answer(<<>>, [db EXCEPT !.containers = { c \in @ : c.id # name },
                                 !.items = { i \in @ : i.c # name }])

\* container.create_item(body, partition_key)
SvcCreateItem(db0, c, body, pk, fault) ==
    LET db == Called(db0, "create_item") IN
    IF fault.cls # "none" THEN Failure(fault, db)
    ELSE IF ~HasContainer(db.containers, c) THEN Failure(NotFoundError, db)
    ELSE IF HasItem(db.items, c, body.id, pk) THEN Failure(ExistsError, db)
    ELSE Answer(body, [db EXCEPT !.items =
                    @ \cup {[c |-> c, id |-> body.id, pk |-> pk, body |-> body]}])

\* container.read_item(item, partition_key)
SvcReadItem(db0, c, id, pk, fault) ==
    LET db == Called(db0, "read_item") IN
    IF fault.cls # "none" THEN Failure(fault, db)
    ELSE IF ~HasContainer(db.containers, c) \/ ~HasItem(db.items, c, id, pk)
    THEN Failure(NotFoundError, db)
    ELSE Answer(ItemOf(db.items, c, id, pk).body, db)

\* container.replace_item(item, body): not-found when the item is not stored
\* (a mutant of the upsert: the operation called the replace instead).
SvcReplaceItem(db0, c, body, pk, fault) ==
    LET db == Called(db0, "replace_item") IN
    IF fault.cls # "none" THEN Failure(fault, db)
    ELSE IF ~HasContainer(db.containers, c) \/ ~HasItem(db.items, c, body.id, pk)
    THEN Failure(NotFoundError, db)
    ELSE Answer(body, [db EXCEPT !.items =
                    { i \in @ : ~(i.c = c /\ i.id = body.id /\ i.pk = pk) }
                        \cup {[c |-> c, id |-> body.id, pk |-> pk, body |-> body]}])

\* container.upsert_item(body, partition_key)
SvcUpsertItem(db0, c, body, pk, fault) ==
    LET db == Called(db0, "upsert_item") IN
    IF fault.cls # "none" THEN Failure(fault, db)
    ELSE IF ~HasContainer(db.containers, c) THEN Failure(NotFoundError, db)
    ELSE Answer(body, [db EXCEPT !.items =
                    { i \in @ : ~(i.c = c /\ i.id = body.id /\ i.pk = pk) }
                        \cup {[c |-> c, id |-> body.id, pk |-> pk, body |-> body]}])

\* container.delete_item(item, partition_key)
SvcDeleteItem(db0, c, id, pk, fault) ==
    LET db == Called(db0, "delete_item") IN
    IF fault.cls # "none" THEN Failure(fault, db)
    ELSE IF ~HasContainer(db.containers, c) \/ ~HasItem(db.items, c, id, pk)
    THEN Failure(NotFoundError, db)
    ELSE Answer(<<>>, [db EXCEPT !.items =
                    { i \in @ : ~(i.c = c /\ i.id = id /\ i.pk = pk) }])

\* list(container.query_items("SELECT * FROM c", max_item_count)): the
\* iterator pages through the whole result; max_item_count is the page size.
SvcQueryItems(db0, c, max_item_count, fault) ==
    LET db == [Called(db0, "query_items") EXCEPT
                   !.queries = Append(@, Query(max_item_count))] IN
    IF fault.cls # "none" THEN Failure(fault, db)
    ELSE IF ~HasContainer(db.containers, c) THEN Failure(NotFoundError, db)
    ELSE Answer({ i \in db.items : i.c = c }, db)

-----------------------------------------------------------------------------
(* CosmosContainerRepository: container operations *)

\* The outcome of one invocation: what it returned or raised, the remote calls
\* it made (and the arguments of its queries), the log records it emitted,
\* the SDK exception its remote call raised (NoFault: none), and the
\* service's state after it.
Out(result, logs, exc, db) ==
    [result |-> result, calls |-> db.calls, queries |-> db.queries, logs |-> logs,
     exc |-> exc, containers |-> db.containers, items |-> db.items]

IsHttpResponseError(e) == e.cls \in SdkHttpClasses

Quota == <<"q","u","o","t","a">>

\* except CosmosHttpResponseError as e: logger.error(...); raise
\* CosmosConnectionError(f"...: {e.status_code}")
\* and no except clause for anything else.  what is the text of the record
\* before the status: the operation, and the container name where the
\* message has it.
ConnectionErrorOrPropagate(what, e) ==
    IF IsHttpResponseError(e)
    THEN [result |-> Raised("CosmosConnectionError", e.status),
          logs |-> <<Log("error", what \o <<e.status>>)>>]
    ELSE [result |-> Propagated(e), logs |-> <<>>]

\* list_containers, lines 58-75
list_containers(db, fault) ==
    LET r == SvcListContainers(db, fault) IN
    IF r.ok
    THEN Out(Returned(r.body),
             <<Log("info", <<"Listed containers", Cardinality(r.body)>>)>>,
             NoFault, r.db)
    ELSE LET h == ConnectionErrorOrPropagate(<<"Failed to list containers">>, r.exc)
         IN  Out(h.result, h.logs, r.exc, r.db)

\* The quota test without the status (a mutant: only the message decides).
QuotaByMessageOnly(e) == Contains(Lower(e.message), Quota)

\* e.status_code == 429 or "quota" in str(e).lower(), line 113
IsQuotaError(e) == e.status = 429 \/ Contains(Lower(e.message), Quota)

\* The except clauses of create_container without the clause for the SDK's
\* already-exists error (a mutant: it is handled as any HTTP error).
create_container_except_no_exists(name, e) ==
    IF IsHttpResponseError(e)
    THEN IF IsQuotaError(e)
         THEN [result |-> Raised("CosmosQuotaExceededError", 0), logs |-> <<>>]
         ELSE [result |-> Raised("CosmosConnectionError", e.status), logs |-> <<>>]
    ELSE [result |-> Propagated(e), logs |-> <<>>]

\* The except clauses of create_container, lines 110-121
create_container_except(name, e) ==
    IF e.cls = "SdkResourceExistsError"
    THEN [result |-> Raised("CosmosResourceExistsError", 0), logs |-> <<>>]
    ELSE IF IsHttpResponseError(e)
    THEN IF IsQuotaError(e)
         THEN [result |-> Raised("CosmosQuotaExceededError", 0), logs |-> <<>>]
         ELSE [result |-> Raised("CosmosConnectionError", e.status),
               logs |-> <<Log("error", <<"Failed to create container", name, e.status>>)>>]
    ELSE [result |-> Propagated(e), logs |-> <<>>]

\* create_container that returns what the remote create answered, without
\* reading the container back (a mutant).
create_container_no_read(db, name, path, throughput, fault1, fault2) ==
    IF ~CONTAINER_NAME_PATTERN_match(name)
    THEN Out(Raised("ValueError", 0), <<>>, NoFault, db)
    ELSE IF ~PathStartsWithSlash(path)
    THEN Out(Raised("CosmosInvalidPartitionKeyError", 0), <<>>, NoFault, db)
    ELSE LET r1 == SvcCreateContainer(db, name, path, fault1) IN
         IF ~r1.ok
         THEN LET h == create_container_except(name, r1.exc)
              IN  Out(h.result, h.logs, r1.exc, r1.db)
         ELSE Out(Returned(r1.body),
                  <<Log("info", <<"Created container", name, path, throughput>>)>>,
                  NoFault, r1.db)

\* create_container, lines 77-121.  fault1 is injected into the remote create,
\* fault2 into the read of the created container's metadata.
create_container(db, name, path, throughput, fault1, fault2) ==
    IF ~CONTAINER_NAME_PATTERN_match(name)
    THEN Out(Raised("ValueError", 0), <<>>, NoFault, db)
    ELSE IF ~PathStartsWithSlash(path)
    THEN Out(Raised("CosmosInvalidPartitionKeyError", 0), <<>>, NoFault, db)
    ELSE LET r1 == SvcCreateContainer(db, name, path, fault1) IN
         IF ~r1.ok
         THEN LET h == create_container_except(name, r1.exc)
              IN  Out(h.result, h.logs, r1.exc, r1.db)
         ELSE LET created == Log("info", <<"Created container", name, path, throughput>>)
                  r2 == SvcReadContainer(r1.db, name, fault2)
              IN  IF r2.ok
                  THEN Out(Returned(r2.body), <<created>>, NoFault,
                           r2.db)
                  ELSE LET h == create_container_except(name, r2.exc)
                       IN  Out(h.result, <<created>> \o h.logs, r2.exc,
                               r2.db)

\* The except clauses of delete_container without the not-found clause (a
\* mutant: not-found on delete is an error like any other).
delete_container_except_strict(name, e) ==
    ConnectionErrorOrPropagate(<<"Failed to delete container", name>>, e)

\* The except clauses of delete_container, lines 138-145
delete_container_except(name, e) ==
    IF e.cls = "SdkResourceNotFoundError"
    THEN [result |-> Returned(<<>>),
          logs |-> <<Log("info", <<"Container not found during delete", name>>)>>]
    ELSE ConnectionErrorOrPropagate(<<"Failed to delete container", name>>, e)

\* delete_container, lines 123-145
delete_container(db, name, fault) ==
    LET r == SvcDeleteContainer(db, name, fault) IN
    IF r.ok
    THEN Out(Returned(<<>>), <<Log("info", <<"Deleted container", name>>)>>,
             NoFault, r.db)
    ELSE LET h == delete_container_except(name, r.exc)
         IN  Out(h.result, h.logs, r.exc, r.db)

\* get_container_properties that answers a missing container with an empty
\* result (a mutant: the not-found clause returns instead of raising).
get_container_properties_swallow(db, name, fault) ==
    LET r == SvcReadContainer(db, name, fault) IN
    IF r.ok
    THEN Out(Returned(r.body),
             <<Log("info", <<"Retrieved properties for container", name>>)>>,
             NoFault, r.db)
    ELSE IF r.exc.cls = "SdkResourceNotFoundError"
    THEN Out(Returned(<<>>), <<>>, r.exc, r.db)
    ELSE LET h == ConnectionErrorOrPropagate(
                      <<"Failed to get properties for container", name>>, r.exc)
         IN  Out(h.result, h.logs, r.exc, r.db)

\* get_container_properties, lines 147-173
get_container_properties(db, name, fault) ==
    LET r == SvcReadContainer(db, name, fault) IN
    IF r.ok
    THEN Out(Returned(r.body),
             <<Log("info", <<"Retrieved properties for container", name>>)>>,
             NoFault, r.db)
    ELSE IF r.exc.cls = "SdkResourceNotFoundError"
    THEN Out(Raised("CosmosResourceNotFoundError", 0), <<>>, r.exc,
             r.db)
    ELSE LET h == ConnectionErrorOrPropagate(
                      <<"Failed to get properties for container", name>>, r.exc)
         IN  Out(h.result, h.logs, r.exc, r.db)

-----------------------------------------------------------------------------
(* CosmosContainerRepository: item operations *)

\* An item payload as the operations see it: whether it is a dict, the keys
\* it has, and the values of its "id" and "v" fields (when it has them).
Payload(isdict, keys, id, v) == [isdict |-> isdict, keys |-> keys, id |-> id, v |-> v]

\* The HTTP clause of the item operations without the test of status 400 (a
\* mutant: every HTTP error is a connection error).
item_http_except_no_400(what, id, e) ==
    IF IsHttpResponseError(e)
    THEN [result |-> Raised("CosmosConnectionError", e.status),
          logs |-> <<Log("error", <<what, id, e.status>>)>>]
    ELSE [result |-> Propagated(e), logs |-> <<>>]

\* if e.status_code == 400: raise CosmosPartitionKeyMismatchError; else
\* logger.error, raise CosmosConnectionError(status); nothing else is caught
item_http_except(what, id, e) ==
    IF IsHttpResponseError(e)
    THEN IF e.status = 400
         THEN [result |-> Raised("CosmosPartitionKeyMismatchError", 0), logs |-> <<>>]
         ELSE [result |-> Raised("CosmosConnectionError", e.status),
               logs |-> <<Log("error", <<what, id, e.status>>)>>]
    ELSE [result |-> Propagated(e), logs |-> <<>>]

\* The checks of create_item without the test for the "id" key (a mutant).
create_item_invalid_no_id_key(container_name, item, partition_key_value) ==
    \/ ~item.isdict
    \/ partition_key_value = ""
    \/ container_name = <<>>

\* The three checks of create_item, lines 235-240
create_item_invalid(container_name, item, partition_key_value) ==
    \/ ~item.isdict \/ "id" \notin item.keys
    \/ partition_key_value = ""
    \/ container_name = <<>>

\* create_item without the clause for the SDK's already-exists error (a
\* mutant: a duplicate is handled as any HTTP error).
create_item_no_duplicate(db, container_name, item, partition_key_value, fault) ==
    IF create_item_invalid(container_name, item, partition_key_value)
    THEN Out(Raised("ValueError", 0), <<>>, NoFault, db)
    ELSE LET r == SvcCreateItem(db, container_name, item, partition_key_value, fault) IN
         IF r.ok
         THEN Out(Returned(r.body),
                  <<Log("info", <<"Created item", item.id, container_name>>)>>,
                  NoFault, r.db)
         ELSE LET h == item_http_except("Failed to create item", "", r.exc)
              IN  Out(h.result, h.logs, r.exc, r.db)

\* create_item, lines 216-261
create_item(db, container_name, item, partition_key_value, fault) ==
    IF create_item_invalid(container_name, item, partition_key_value)
    THEN Out(Raised("ValueError", 0), <<>>, NoFault, db)
    ELSE LET r == SvcCreateItem(db, container_name, item, partition_key_value, fault) IN
         IF r.ok
         THEN Out(Returned(r.body),
                  <<Log("info", <<"Created item", item.id, container_name>>)>>,
                  NoFault, r.db)
         ELSE IF r.exc.cls = "SdkResourceExistsError"
         THEN Out(Raised("CosmosDuplicateItemError", 0), <<>>, r.exc,
                  r.db)
         ELSE LET h == item_http_except("Failed to create item", "", r.exc)
              IN  Out(h.result, h.logs, r.exc, r.db)

\* get_item, lines 263-298
get_item(db, container_name, item_id, partition_key_value, fault) ==
    LET r == SvcReadItem(db, container_name, item_id, partition_key_value, fault) IN
    IF r.ok
    THEN Out(Returned(r.body),
             <<Log("info", <<"Retrieved item", item_id, container_name>>)>>,
             NoFault, r.db)
    ELSE IF r.exc.cls = "SdkResourceNotFoundError"
    THEN Out(Raised("CosmosItemNotFoundError", 0), <<>>, r.exc,
             r.db)
    ELSE LET h == item_http_except("Failed to get item", item_id, r.exc)
         IN  Out(h.result, h.logs, r.exc, r.db)

\* update_item validation without the id comparison (a mutant).
update_item_invalid_no_id_check(item_id, item) == ~item.isdict

\* The two checks of update_item, lines 323-328: item.get("id") is None for a
\* dict without "id", which differs from every item_id string.
update_item_invalid(item_id, item) ==
    \/ ~item.isdict
    \/ ~("id" \in item.keys /\ item.id = item_id)

\* update_item, lines 300-345
update_item(db, container_name, item_id, item, partition_key_value, fault) ==
    IF update_item_invalid(item_id, item)
    THEN Out(Raised("ValueError", 0), <<>>, NoFault, db)
    ELSE LET r == SvcUpsertItem(db, container_name, item, partition_key_value, fault) IN
         IF r.ok
         THEN Out(Returned(r.body),
                  <<Log("info", <<"Updated item", item_id, container_name>>)>>,
                  NoFault, r.db)
         ELSE LET h == item_http_except("Failed to update item", item_id, r.exc)
              IN  Out(h.result, h.logs, r.exc, r.db)

\* delete_item, lines 347-378
delete_item(db, container_name, item_id, partition_key_value, fault) ==
    LET r == SvcDeleteItem(db, container_name, item_id, partition_key_value, fault) IN
    IF r.ok
    THEN Out(Returned(<<>>),
             <<Log("info", <<"Deleted item", item_id, container_name>>)>>,
             NoFault, r.db)
    ELSE IF r.exc.cls = "SdkResourceNotFoundError"
    THEN Out(Returned(<<>>),
             <<Log("info", <<"Item not found during delete", item_id>>)>>,
             r.exc, r.db)
    ELSE LET h == item_http_except("Failed to delete item", item_id, r.exc)
         IN  Out(h.result, h.logs, r.exc, r.db)

\* The default of list_items' max_count, line 381
DefaultMaxCount == 100

\* list_items that always asks for pages of the default size (a mutant:
\* max_count is checked but not passed on).
list_items_fixed_page(db, container_name, max_count, fault) ==
    IF max_count <= 0
    THEN Out(Raised("ValueError", 0), <<>>, NoFault, db)
    ELSE LET r == SvcQueryItems(db, container_name, DefaultMaxCount, fault) IN
         IF r.ok
         THEN Out(Returned(r.body),
                  <<Log("info", <<"Listed items", Cardinality(r.body), container_name>>)>>,
                  NoFault, r.db)
         ELSE LET h == ConnectionErrorOrPropagate(<<"Failed to list items">>, r.exc)
              IN  Out(h.result, h.logs, r.exc, r.db)

\* list_items, lines 380-409
list_items(db, container_name, max_count, fault) ==
    IF max_count <= 0
    THEN Out(Raised("ValueError", 0), <<>>, NoFault, db)
    ELSE LET r == SvcQueryItems(db, container_name, max_count, fault) IN
         IF r.ok
         THEN Out(Returned(r.body),
                  <<Log("info", <<"Listed items", Cardinality(r.body), container_name>>)>>,
                  NoFault, r.db)
         ELSE LET h == ConnectionErrorOrPropagate(<<"Failed to list items">>, r.exc)
              IN  Out(h.result, h.logs, r.exc, r.db)

-----------------------------------------------------------------------------
(* Inputs of the repository operations *)

A == <<"a">>
SlashK == <<"/","k">>

\* Container names of the requests: a valid name and the empty name
RepoNames == {A, <<>>}
\* Partition-key paths: one with the leading slash, two without, the empty one
PathInputs == {SlashK, <<"k">>, <<"k","/">>, <<>>}
ItemIds == {"i1", "i2"}
PkInputs == {"p1", ""}

\* throughput's default, line 78
DefaultThroughput == 400

NotADict == Payload(FALSE, {}, "", "")
PayloadInputs == {NotADict,
                  Payload(TRUE, {"v"}, "", "x"),
                  Payload(TRUE, {"id", "v"}, "i1", "x"),
                  Payload(TRUE, {"id", "v"}, "i1", "y"),
                  Payload(TRUE, {"id", "v"}, "i2", "x")}
MaxCountInputs == {-1, 0, 1, 2, DefaultMaxCount}

MsgErr == <<"e","r","r">>
Http400 == SdkError("CosmosHttpResponseError", 400, MsgErr)
Http403 == SdkError("CosmosHttpResponseError", 403, <<"q","u","o","t","e">>)
Http429 == SdkError("CosmosHttpResponseError", 429, MsgErr)
Http500 == SdkError("CosmosHttpResponseError", 500, MsgErr)
Http403Quota == SdkError("CosmosHttpResponseError", 403, <<"Q","u","o","t","a"," ","h","i","t">>)
ExistsQuota == SdkError("SdkResourceExistsError", 409, <<"n","o"," ","q","u","o","t","a">>)
ConnectionRefused == SdkError("ServiceRequestError", 0, <<"r","e","f","u","s","e","d">>)

\* The failures injected into a remote call
Faults == {NoFault, Http400, Http500, ConnectionRefused}
CreateFaults == {NoFault, Http403, Http429, Http500, Http403Quota, ExistsQuota,
                 ConnectionRefused}
ReadFaults == {NoFault, Http429, Http500, ConnectionRefused}

-----------------------------------------------------------------------------
(* Repository invocations *)

Args(name, path, id, item, pk, max_count) ==
    [name |-> name, path |-> path, id |-> id, item |-> item, pk |-> pk,
     max_count |-> max_count]

NoArgs == Args(<<>>, <<>>, "", NotADict, "", 0)

\* The id of the item a request is about: its item_id argument, or the id of
\* its payload when it has no such argument
RequestId(a) == IF a.id # "" THEN a.id ELSE a.item.id

\* The record of an invocation: op with arguments a ended with outcome o;
\* natural: no failure was injected; existed: the container named by the
\* request was there before the call; had: the item named by the request was
\* stored before the call; omitted: max_count was left to its default.
Invocation(op, a, o, natural, existed) ==
    [op |-> op, name |-> a.name, path |-> a.path, id |-> a.id, item |-> a.item,
     pk |-> a.pk, max_count |-> a.max_count,
     result |-> o.result, calls |-> o.calls, queries |-> o.queries,
     logs |-> o.logs, exc |-> o.exc,
     natural |-> natural, existed |-> existed,
     had |-> HasItem(items, a.name, RequestId(a), a.pk),
     omitted |-> FALSE]

NoInvocation ==
    Invocation("none", NoArgs, Out(Returned(<<>>), <<>>, NoFault, Db({}, {})), TRUE, FALSE)

\* The service keeps what the invocation left; the factory is not involved.
Commit(o) ==
    /\ containers' = o.containers
    /\ items' = o.items
    /\ UNCHANGED <<factoryVars, otherVars>>

ListContainers(fault) ==
    LET o == list_containers(Db(containers, items), fault) IN
    /\ last' = Invocation("list_containers", NoArgs, o, fault = NoFault, FALSE)
    /\ Commit(o)

CreateContainer(name, path, fault1, fault2) ==
    LET o == create_container(Db(containers, items), name, path, DefaultThroughput,
                              fault1, fault2) IN
    /\ last' = Invocation("create_container", Args(name, path, "", NotADict, "", 0), o,
                          fault1 = NoFault /\ fault2 = NoFault,
                          HasContainer(containers, name))
    /\ Commit(o)

DeleteContainer(name, fault) ==
    LET o == delete_container(Db(containers, items), name, fault) IN
    /\ last' = Invocation("delete_container", Args(name, <<>>, "", NotADict, "", 0), o,
                          fault = NoFault, HasContainer(containers, name))
    /\ Commit(o)

GetContainerProperties(name, fault) ==
    LET o == get_container_properties(Db(containers, items), name, fault) IN
    /\ last' = Invocation("get_container_properties",
                          Args(name, <<>>, "", NotADict, "", 0), o,
                          fault = NoFault, HasContainer(containers, name))
    /\ Commit(o)

CreateItem(name, item, pk, fault) ==
    LET o == create_item(Db(containers, items), name, item, pk, fault) IN
    /\ last' = Invocation("create_item", Args(name, <<>>, "", item, pk, 0), o,
                          fault = NoFault, HasContainer(containers, name))
    /\ Commit(o)

GetItem(name, id, pk, fault) ==
    LET o == get_item(Db(containers, items), name, id, pk, fault) IN
    /\ last' = Invocation("get_item", Args(name, <<>>, id, NotADict, pk, 0), o,
                          fault = NoFault, HasContainer(containers, name))
    /\ Commit(o)

UpdateItem(name, id, item, pk, fault) ==
    LET o == update_item(Db(containers, items), name, id, item, pk, fault) IN
    /\ last' = Invocation("update_item", Args(name, <<>>, id, item, pk, 0), o,
                          fault = NoFault, HasContainer(containers, name))
    /\ Commit(o)

DeleteItem(name, id, pk, fault) ==
    LET o == delete_item(Db(containers, items), name, id, pk, fault) IN
    /\ last' = Invocation("delete_item", Args(name, <<>>, id, NotADict, pk, 0), o,
                          fault = NoFault, HasContainer(containers, name))
    /\ Commit(o)

ListItems(name, max_count, fault) ==
    LET o == list_items(Db(containers, items), name, max_count, fault) IN
    /\ last' = Invocation("list_items", Args(name, <<>>, "", NotADict, "", max_count), o,
                          fault = NoFault, HasContainer(containers, name))
    /\ Commit(o)

\* list_items(container_name): max_count takes its default, line 381
ListItemsDefault(name, fault) ==
    LET o == list_items(Db(containers, items), name, DefaultMaxCount, fault) IN
    /\ last' = [Invocation("list_items",
                            Args(name, <<>>, "", NotADict, "", DefaultMaxCount), o,
                            fault = NoFault, HasContainer(containers, name))
                    EXCEPT !.omitted = TRUE]
    /\ Commit(o)

\* Construction of the repository: an empty database, nothing invoked
InitRepository ==
    /\ containers = {}
    /\ items = {}
    /\ last = NoInvocation

\* The repository on its own: no factory is involved
Init ==
    /\ InitRepository
    /\ settings = <<>>
    /\ client = <<>>
    /\ providerCalls = <<>>
    /\ provided = {}
    /\ repos = {}
    /\ flast = <<>>
    /\ plast = <<>>
    /\ cli = <<>>
    /\ th = <<>>

Next ==
    \/ \E f \in Faults : ListContainers(f)
    \/ \E n \in RepoNames, p \in PathInputs, f1 \in CreateFaults, f2 \in ReadFaults :
           CreateContainer(n, p, f1, f2)
    \/ \E n \in RepoNames, f \in Faults : DeleteContainer(n, f)
    \/ \E n \in RepoNames, f \in Faults : GetContainerProperties(n, f)
    \/ \E n \in RepoNames, i \in PayloadInputs, k \in PkInputs, f \in Faults :
           CreateItem(n, i, k, f)
    \/ \E n \in RepoNames, id \in ItemIds, k \in PkInputs, f \in Faults :
           GetItem(n, id, k, f)
    \/ \E n \in RepoNames, id \in ItemIds, i \in PayloadInputs, k \in PkInputs, f \in Faults :
           UpdateItem(n, id, i, k, f)
    \/ \E n \in RepoNames, id \in ItemIds, k \in PkInputs, f \in Faults :
           DeleteItem(n, id, k, f)
    \/ \E n \in RepoNames, m \in MaxCountInputs, f \in Faults : ListItems(n, m, f)
    \/ \E n \in RepoNames, f \in Faults : ListItemsDefault(n, f)

Spec == Init /\ [][Next]_vars

-----------------------------------------------------------------------------
(* Name validation on a fresh database: create_container over many names *)

\* The longest of the short names tried
MaxShortLen == 2

NameAlphabet == {"a", "Z", "7", "-", "_", "\n"}

RECURSIVE SeqsUpTo(_, _)
SeqsUpTo(S, n) ==
    IF n = 0 THEN {<<>>}
    ELSE LET shorter == SeqsUpTo(S, n - 1)
         IN  shorter \cup { Append(q, x) : q \in { t \in shorter : Len(t) = n - 1 }, x \in S }

\* Names around the pattern's length limit, alone and with one more character
LongNames ==
    LET runs == { Repeat("a", n) : n \in {MaxNameLen - 1, MaxNameLen, MaxNameLen + 1} }
    IN  runs \cup { Append(r, "\n") : r \in runs } \cup { Append(r, "_") : r \in runs }

NameInputs == SeqsUpTo(NameAlphabet, MaxShortLen) \cup LongNames

\* Each create starts from the empty database; what it created is deleted
\* before the next one.
NextValidate ==
    \/ /\ containers = {}
       /\ \E n \in NameInputs, p \in PathInputs : CreateContainer(n, p, NoFault, NoFault)
    \/ \E c \in containers : DeleteContainer(c.id, NoFault)

SpecValidate == Init /\ [][NextValidate]_vars

-----------------------------------------------------------------------------
(* ConnectionStringAuthStrategy: auth/strategy.py *)

\* An Optional[str]: absent (None) or a string
Absent == [present |-> FALSE, text |-> <<>>]
Str(text) == [present |-> TRUE, text |-> text]

\* Python's truth value of an Optional[str]
Truthy(opt) == opt.present /\ opt.text # <<>>

\* The characters str.strip() removes: those str.isspace() holds of, the
\* ones outside the escapes of a string written by their code points
Whitespace ==
    {" ", "\t", "\n", "\r", "\f", "U+000B", "U+001C", "U+001D", "U+001E", "U+001F",
     "U+0085", "U+00A0", "U+1680", "U+2000", "U+2001", "U+2002", "U+2003",
     "U+2004", "U+2005", "U+2006", "U+2007", "U+2008", "U+2009", "U+200A",
     "U+2028", "U+2029", "U+202F", "U+205F", "U+3000"}

\* No stripping at all (a mutant of str.strip()).
NoStrip(s) == s

\* str.strip()
Strip(s) ==
    LET solid == { i \in 1..Len(s) : s[i] \notin Whitespace } IN
    IF solid = {} THEN <<>>
    ELSE SubSeq(s, CHOOSE i \in solid : \A j \in solid : i <= j,
                   CHOOSE i \in solid : \A j \in solid : i >= j)

\* The except clauses of get_client with the test of the message first (a
\* mutant: the clauses for ValueError and for HTTP errors come too late for
\* an exception whose message mentions a connection or a network).
get_client_except_network_first(err) ==
    IF \/ Contains(Lower(err.message), <<"c","o","n","n","e","c","t","i","o","n">>)
       \/ Contains(Lower(err.message), <<"n","e","t","w","o","r","k">>)
    THEN [result |-> Raised("CosmosConnectionError", 0),
          message |-> <<"Network error connecting to Cosmos DB", err.message>>]
    ELSE IF err.cls = "ValueError"
    THEN [result |-> Raised("CosmosAuthError", 0),
          message |-> <<"Malformed connection string", err.message>>]
    ELSE IF IsHttpResponseError(err)
    THEN IF err.status = 401
         THEN [result |-> Raised("CosmosAuthError", 0),
               message |-> <<"Authentication failed", <<>>>>]
         ELSE [result |-> Raised("CosmosConnectionError", 0),
               message |-> <<"Failed to connect to Cosmos DB", err.message>>]
    ELSE [result |-> Raised("CosmosAuthError", 0),
          message |-> <<"Unexpected error during authentication", err.message>>]

\* The except clauses of get_client, lines 57-75: err is what
\* CosmosClient.from_connection_string raised
get_client_except(err) ==
    IF err.cls = "ValueError"
    THEN [result |-> Raised("CosmosAuthError", 0),
          message |-> <<"Malformed connection string", err.message>>]
    ELSE IF IsHttpResponseError(err)
    THEN IF err.status = 401
         THEN [result |-> Raised("CosmosAuthError", 0),
               message |-> <<"Authentication failed", <<>>>>]
         ELSE [result |-> Raised("CosmosConnectionError", 0),
               message |-> <<"Failed to connect to Cosmos DB", err.message>>]
    ELSE IF \/ Contains(Lower(err.message), <<"c","o","n","n","e","c","t","i","o","n">>)
            \/ Contains(Lower(err.message), <<"n","e","t","w","o","r","k">>)
    THEN [result |-> Raised("CosmosConnectionError", 0),
          message |-> <<"Network error connecting to Cosmos DB", err.message>>]
    ELSE [result |-> Raised("CosmosAuthError", 0),
          message |-> <<"Unexpected error during authentication", err.message>>]

\* get_client whose info record carries the connection string (a mutant).
get_client_logs_secret(connection_string, connect, handle) ==
    IF ~connection_string.present
    THEN [result |-> Raised("CosmosAuthError", 0),
          message |-> <<"Connection string not provided", <<>>>>,
          attempted |-> FALSE, logs |-> <<>>]
    ELSE IF connection_string.text = <<>> \/ Strip(connection_string.text) = <<>>
    THEN [result |-> Raised("CosmosAuthError", 0),
          message |-> <<"Connection string is empty", <<>>>>,
          attempted |-> FALSE, logs |-> <<>>]
    ELSE LET started == Log("info", <<"Initializing connection string auth strategy",
                                      connection_string.text>>) IN
         IF connect.cls = "none"
         THEN [result |-> Returned(handle), message |-> <<>>,
               attempted |-> TRUE, logs |-> <<started>>]
         ELSE LET h == get_client_except(connect) IN
              [result |-> h.result, message |-> h.message,
               attempted |-> TRUE, logs |-> <<started>>]

\* get_client, lines 31-75.  connect is what the connect attempt does (NoFault:
\* it succeeds), handle the client it creates when it succeeds.
get_client(connection_string, connect, handle) ==
    IF ~connection_string.present
    THEN [result |-> Raised("CosmosAuthError", 0),
          message |-> <<"Connection string not provided", <<>>>>,
          attempted |-> FALSE, logs |-> <<>>]
    ELSE IF connection_string.text = <<>> \/ Strip(connection_string.text) = <<>>
    THEN [result |-> Raised("CosmosAuthError", 0),
          message |-> <<"Connection string is empty", <<>>>>,
          attempted |-> FALSE, logs |-> <<>>]
    ELSE LET started == Log("info", <<"Initializing connection string auth strategy">>) IN
         IF connect.cls = "none"
         THEN [result |-> Returned(handle), message |-> <<>>,
               attempted |-> TRUE, logs |-> <<started>>]
         ELSE LET h == get_client_except(connect) IN
              [result |-> h.result, message |-> h.message,
               attempted |-> TRUE, logs |-> <<started>>]

-----------------------------------------------------------------------------
(* RepositoryFactory: factory.py *)

\* self._client before the first successful request, line 45
None == 0

\* The OrbitSettings of config.py, lines 20-24: a connection string, an
\* endpoint and a key, and no attribute database_name
OrbitSettings(connection_string, endpoint, key) ==
    [connection_string |-> connection_string, endpoint |-> endpoint, key |-> key,
     has_database_name |-> FALSE, database_name |-> Absent]

\* A settings object that carries the attribute database_name which the factory
\* reads: the settings of the data model, and what the factory's tests build
SettingsWithDatabaseName(connection_string, database_name) ==
    [connection_string |-> connection_string, endpoint |-> Absent, key |-> Absent,
     has_database_name |-> TRUE, database_name |-> database_name]

\* RepositoryFactory.__init__, lines 38-46: reading settings.database_name
\* raises AttributeError when the settings have no such attribute, and no
\* factory is constructed
RepositoryFactory_init(st) ==
    IF st.has_database_name THEN Returned(None) ELSE Raised("AttributeError", 0)

\* What a factory request did: its result, the factory's cached client after
\* it, whether it invoked the provider and whether the provider made a client.
FactoryOut(result, cached, invoked, created, connect) ==
    [result |-> result, client |-> cached, invoked |-> invoked, created |-> created,
     connect |-> connect]

\* _get_client that asks the provider every time and keeps the new client (a
\* mutant: the check of the cached client is missing).
factory_get_client_always(cached, st, connect, handle) ==
    IF ~Truthy(st.database_name)
    THEN FactoryOut(Raised("ValueError", 0), cached, FALSE, FALSE, NoFault)
    ELSE LET g == get_client(st.connection_string, connect, handle) IN
         IF g.result.kind = "ok"
         THEN FactoryOut(Returned(handle), handle, TRUE, TRUE, NoFault)
         ELSE FactoryOut(g.result, cached, TRUE, FALSE,
                         IF g.attempted THEN connect ELSE NoFault)

\* _get_client that returns the provider's client without keeping it (a
\* mutant: the assignment to self._client is missing).
factory_get_client_uncached(cached, st, connect, handle) ==
    IF cached = None
    THEN IF ~Truthy(st.database_name)
         THEN FactoryOut(Raised("ValueError", 0), cached, FALSE, FALSE, NoFault)
         ELSE LET g == get_client(st.connection_string, connect, handle) IN
              IF g.result.kind = "ok"
              THEN FactoryOut(Returned(handle), cached, TRUE, TRUE, NoFault)
              ELSE FactoryOut(g.result, cached, TRUE, FALSE,
                              IF g.attempted THEN connect ELSE NoFault)
    ELSE FactoryOut(Returned(cached), cached, FALSE, FALSE, NoFault)

\* _get_client that asks the provider before it looks at the database name
\* (a mutant: the two steps of the first request are swapped).
factory_get_client_provider_first(cached, st, connect, handle) ==
    IF cached = None
    THEN LET g == get_client(st.connection_string, connect, handle) IN
         IF g.result.kind # "ok"
         THEN FactoryOut(g.result, cached, TRUE, FALSE,
                         IF g.attempted THEN connect ELSE NoFault)
         ELSE IF ~Truthy(st.database_name)
         THEN FactoryOut(Raised("ValueError", 0), handle, TRUE, TRUE, NoFault)
         ELSE FactoryOut(Returned(handle), handle, TRUE, TRUE, NoFault)
    ELSE FactoryOut(Returned(cached), cached, FALSE, FALSE, NoFault)

\* _get_client that keeps a client although the provider failed (a mutant:
\* self._client is set before the provider's result is known).
factory_get_client_caches_failure(cached, st, connect, handle) ==
    IF cached = None
    THEN IF ~Truthy(st.database_name)
         THEN FactoryOut(Raised("ValueError", 0), cached, FALSE, FALSE, NoFault)
         ELSE LET g == get_client(st.connection_string, connect, handle) IN
              IF g.result.kind = "ok"
              THEN FactoryOut(Returned(handle), handle, TRUE, TRUE, NoFault)
              ELSE FactoryOut(g.result, handle, TRUE, FALSE,
                              IF g.attempted THEN connect ELSE NoFault)
    ELSE FactoryOut(Returned(cached), cached, FALSE, FALSE, NoFault)

\* _get_client, lines 48-70.  cached is self._client, st the settings.
factory_get_client(cached, st, connect, handle) ==
    IF cached = None
    THEN IF ~Truthy(st.database_name)
         THEN FactoryOut(Raised("ValueError", 0), cached, FALSE, FALSE, NoFault)
         ELSE LET g == get_client(st.connection_string, connect, handle) IN
              IF g.result.kind = "ok"
              THEN FactoryOut(Returned(handle), handle, TRUE, TRUE, NoFault)
              ELSE FactoryOut(g.result, cached, TRUE, FALSE,
                              IF g.attempted THEN connect ELSE NoFault)
    ELSE FactoryOut(Returned(cached), cached, FALSE, FALSE, NoFault)

\* CosmosContainerRepository(client, database_name), cosmos.py lines 47-56
Repository(c, database_name) == [client |-> c, database_name |-> database_name]

\* get_container_repository, lines 72-85
get_container_repository(cached, st, connect, handle) ==
    LET c == factory_get_client(cached, st, connect, handle) IN
    IF c.result.kind # "ok" THEN c
    ELSE IF ~Truthy(st.database_name)
    THEN [c EXCEPT !.result = Raised("ValueError", 0)]
    ELSE [c EXCEPT !.result = Returned(Repository(c.result.value, st.database_name.text))]

\* get_item_repository, lines 87-104
get_item_repository(cached, st, connect, handle) ==
    LET c == factory_get_client(cached, st, connect, handle) IN
    IF c.result.kind # "ok" THEN c
    ELSE IF ~Truthy(st.database_name)
    THEN [c EXCEPT !.result = Raised("ValueError", 0)]
    ELSE [c EXCEPT !.result = Returned(Repository(c.result.value, st.database_name.text))]

-----------------------------------------------------------------------------
(* Factory requests *)

Factories == {"f1", "f2"}

\* A factory makes at most this many provider invocations
MaxProviderCalls == 3

\* The second string is a space and a vertical tab
ConnectionStringInputs ==
    {Absent, Str(<<>>), Str(<<" ", "U+000B">>), Str(<<" ", "k", "=", "v">>)}
DatabaseNameInputs == {Absent, Str(<<>>), Str(<<"d","b">>)}

\* What CosmosClient.from_connection_string does: it succeeds, or raises
ParseError == SdkError("ValueError", 0, <<"b","a","d">>)
Http401 == SdkError("CosmosHttpResponseError", 401, MsgErr)
Http503 == SdkError("CosmosHttpResponseError", 503, MsgErr)
NetworkDown == SdkError("Exception", 0, <<"N","e","t","w","o","r","k"," ","d","o","w","n">>)
Unexpected == SdkError("Exception", 0, <<"b","o","o","m">>)
ConnectOutcomes == {NoFault, ParseError, Http401, Http503, NetworkDown, Unexpected}

\* The client the provider creates next
FreshHandle == Cardinality(provided) + 1

Request(f, op, o) ==
    /\ RepositoryFactory_init(settings).kind = "ok"
    /\ providerCalls[f] < MaxProviderCalls
    /\ client' = [client EXCEPT ![f] = o.client]
    /\ providerCalls' = [providerCalls EXCEPT ![f] = @ + (IF o.invoked THEN 1 ELSE 0)]
    /\ provided' = IF o.created
                   THEN provided \cup {[factory |-> f, handle |-> FreshHandle]}
                   ELSE provided
    /\ repos' = IF o.result.kind = "ok"
                THEN repos \cup {[factory |-> f, client |-> o.result.value.client]}
                ELSE repos
    /\ flast' = [factory |-> f, op |-> op, result |-> o.result, invoked |-> o.invoked,
                 connect |-> o.connect, before |-> client[f]]
    /\ UNCHANGED <<settings, plast, repoVars, otherVars>>

GetContainerRepository(f, connect) ==
    LET o == get_container_repository(client[f], settings, connect, FreshHandle) IN
    /\ Request(f, "get_container_repository", o)

GetItemRepository(f, connect) ==
    LET o == get_item_repository(client[f], settings, connect, FreshHandle) IN
    /\ Request(f, "get_item_repository", o)

\* RepositoryFactory.__init__, lines 38-46, for each factory, with the
\* settings of the process.  Where the constructor raises there is no factory
\* to request a repository from
InitFactory ==
    /\ InitRepository
    /\ settings \in
          { OrbitSettings(c, Absent, Absent) : c \in ConnectionStringInputs } \cup
          { SettingsWithDatabaseName(c, d) : c \in ConnectionStringInputs,
                                            d \in DatabaseNameInputs }
    /\ client = [f \in Factories |-> None]
    /\ providerCalls = [f \in Factories |-> 0]
    /\ provided = {}
    /\ repos = {}
    /\ flast = [factory |-> "none", op |-> "__init__",
                result |-> RepositoryFactory_init(settings),
                invoked |-> FALSE, connect |-> NoFault, before |-> None]
    /\ plast = <<>>
    /\ cli = <<>>
    /\ th = <<>>

NextFactory ==
    \/ \E f \in Factories, c \in ConnectOutcomes : GetContainerRepository(f, c)
    \/ \E f \in Factories, c \in ConnectOutcomes : GetItemRepository(f, c)

SpecFactory == InitFactory /\ [][NextFactory]_vars

-----------------------------------------------------------------------------
(* The provider on its own: get_client over many connection strings *)

\* The longest of the connection strings tried
MaxCsLen == 2

\* A space, a tab, a vertical tab, and two characters that are no whitespace
CsAlphabet == {" ", "\t", "U+000B", "k", "="}

ProviderStrings == {Absent} \cup { Str(t) : t \in SeqsUpTo(CsAlphabet, MaxCsLen) }

\* More of what CosmosClient.from_connection_string raises: a parse error, a
\* rejected credential and a refused request whose messages mention a
\* connection or a network, and exceptions that say so in capitals, one of them
\* with the Kelvin sign for the K of NETWORK
ParseConnection == SdkError("ValueError", 0,
                       <<"b","a","d"," ","c","o","n","n","e","c","t","i","o","n">>)
Http401Network == SdkError("CosmosHttpResponseError", 401, <<"n","e","t","w","o","r","k">>)
Http403Forbidden == SdkError("CosmosHttpResponseError", 403, MsgErr)
ConnectionReset == SdkError("Exception", 0,
                       <<"C","O","N","N","E","C","T","I","O","N"," ","r","e","s","e","t">>)
ProviderOutcomes ==
    ConnectOutcomes \cup
    {ParseConnection, Http401Network, Http403Forbidden, ConnectionReset,
     SdkError("Exception", 0, <<"N","E","T","W","O","R","U+212A">>)}

\* A parse error whose message echoes the connection string it was given
EchoParse(connection_string) ==
    SdkError("ValueError", 0, <<"b","a","d",":">> \o connection_string.text)

NoProviderCall ==
    [op |-> "none", connection_string |-> Absent, connect |-> NoFault,
     result |-> Returned(<<>>), message |-> <<>>, attempted |-> FALSE, logs |-> <<>>]

\* ConnectionStringAuthStrategy(settings).get_client()
GetClient(connection_string, connect) ==
    LET g == get_client(connection_string, connect, FreshHandle) IN
    /\ plast' = [op |-> "get_client", connection_string |-> connection_string,
                 connect |-> IF g.attempted THEN connect ELSE NoFault,
                 result |-> g.result, message |-> g.message,
                 attempted |-> g.attempted, logs |-> g.logs]
    /\ UNCHANGED <<settings, client, providerCalls, provided, repos, flast, repoVars,
                   otherVars>>

InitProvider ==
    /\ InitRepository
    /\ settings = <<>>
    /\ client = <<>>
    /\ providerCalls = <<>>
    /\ provided = {}
    /\ repos = {}
    /\ flast = <<>>
    /\ plast = NoProviderCall
    /\ cli = <<>>
    /\ th = <<>>

NextProvider ==
    \E cs \in ProviderStrings :
        \E c \in ProviderOutcomes \cup {EchoParse(cs)} : GetClient(cs, c)

SpecProvider == InitProvider /\ [][NextProvider]_vars

-----------------------------------------------------------------------------
(* Threads: the first repository requests of several threads on one factory *)

\* _get_client and get_container_repository, statement by statement: each
\* thread is at one statement, and the statements of different threads
\* interleave.  The factory has no lock of its own; th.guarded says whether
\* the callers hold one mutex around _get_client.
Threads == {"t1", "t2", "t3"}

\* The factory the threads share
Shared == "f1"

\* Nobody holds the callers' mutex
Free == "free"

\* What the provider's connection does in a thread's request
ThreadOutcomes == {NoFault, Http503}

\* The test that is always true (a mutant: every request initializes).
NeedsInitAlways(cached) == TRUE

\* if self._client is None, line 61
NeedsInit(cached) == cached = None

\* The callers' mutex is released when _get_client returns or raises
Release(guarded, lock, t) == IF guarded /\ lock = t THEN Free ELSE lock

\* client = self._get_client(), line 82: the thread enters _get_client
\* (with the mutex, when the callers use one)
Enter(t) ==
    /\ RepositoryFactory_init(settings).kind = "ok"
    /\ th.pc[t] = "start"
    /\ th.guarded => th.lock = Free
    /\ th' = [th EXCEPT !.pc[t] = "check",
                        !.lock = IF th.guarded THEN t ELSE Free]
    /\ UNCHANGED <<repoVars, settings, client, providerCalls, provided, repos,
                   flast, plast, cli>>

\* line 61: the test of the cached client
Check(t) ==
    /\ th.pc[t] = "check"
    /\ th' = [th EXCEPT !.pc[t] = IF NeedsInit(client[Shared])
                                  THEN "provide" ELSE "return"]
    /\ UNCHANGED <<repoVars, settings, client, providerCalls, provided, repos,
                   flast, plast, cli>>

\* lines 63-68, right-hand side: the database name is checked and the
\* provider is asked for a client; the client is in the thread's hands
Provide(t, connect) ==
    /\ th.pc[t] = "provide"
    /\ IF ~Truthy(settings.database_name)
       THEN /\ th' = [th EXCEPT !.pc[t] = "failed", !.error[t] = "ValueError",
                                !.lock = Release(th.guarded, th.lock, t)]
            /\ UNCHANGED <<providerCalls, provided>>
       ELSE LET g == get_client(settings.connection_string, connect, FreshHandle) IN
            /\ providerCalls' = [providerCalls EXCEPT ![Shared] = @ + 1]
            /\ IF g.result.kind = "ok"
               THEN /\ provided' = provided \cup
                                     {[factory |-> Shared, handle |-> FreshHandle]}
                    /\ th' = [th EXCEPT !.pc[t] = "set", !.local[t] = FreshHandle]
               ELSE /\ provided' = provided
                    /\ th' = [th EXCEPT !.pc[t] = "failed",
                                        !.error[t] = g.result.kind,
                                        !.lock = Release(th.guarded, th.lock, t)]
    /\ UNCHANGED <<repoVars, settings, client, repos, flast, plast, cli>>

\* line 68, the assignment: self._client = the client the thread was given
Set(t) ==
    /\ th.pc[t] = "set"
    /\ client' = [client EXCEPT ![Shared] = th.local[t]]
    /\ th' = [th EXCEPT !.pc[t] = "return", !.writes = Append(@, th.local[t])]
    /\ UNCHANGED <<repoVars, settings, providerCalls, provided, repos, flast,
                   plast, cli>>

\* return self._client, line 70: the cached client as it is now
Return(t) ==
    /\ th.pc[t] = "return"
    /\ th' = [th EXCEPT !.pc[t] = "build", !.ret[t] = client[Shared],
                        !.lock = Release(th.guarded, th.lock, t)]
    /\ UNCHANGED <<repoVars, settings, client, providerCalls, provided, repos,
                   flast, plast, cli>>

\* lines 83-85: the repository around the client _get_client returned
Build(t) ==
    /\ th.pc[t] = "build"
    /\ IF ~Truthy(settings.database_name)
       THEN /\ th' = [th EXCEPT !.pc[t] = "failed", !.error[t] = "ValueError"]
            /\ repos' = repos
       ELSE /\ th' = [th EXCEPT !.pc[t] = "done"]
            /\ repos' = repos \cup {[factory |-> Shared, client |-> th.ret[t]]}
    /\ UNCHANGED <<repoVars, settings, client, providerCalls, provided, flast,
                   plast, cli>>

\* Every thread is about to make its request on the new factory (where
\* RepositoryFactory.__init__ raised there is none, and no request).  The
\* factory has no lock of its own: guarded = FALSE is the factory used as it
\* is, guarded = TRUE the factory used by callers that hold one mutex of
\* theirs around each request's _get_client.
InitThreads ==
    /\ InitRepository
    /\ settings \in
          { OrbitSettings(c, Absent, Absent) : c \in ConnectionStringInputs } \cup
          { SettingsWithDatabaseName(c, d) : c \in ConnectionStringInputs,
                                            d \in DatabaseNameInputs }
    /\ client = [f \in Factories |-> None]
    /\ providerCalls = [f \in Factories |-> 0]
    /\ provided = {}
    /\ repos = {}
    /\ flast = <<>>
    /\ plast = <<>>
    /\ cli = <<>>
    /\ \E g \in BOOLEAN :
          th = [guarded |-> g, lock |-> Free,
                pc |-> [t \in Threads |-> "start"],
                local |-> [t \in Threads |-> None],
                ret |-> [t \in Threads |-> None],
                error |-> [t \in Threads |-> "none"],
                writes |-> <<>>]

NextThreads ==
    \/ \E t \in Threads : Enter(t)
    \/ \E t \in Threads : Check(t)
    \/ \E t \in Threads, c \in ThreadOutcomes : Provide(t, c)
    \/ \E t \in Threads : Set(t)
    \/ \E t \in Threads : Return(t)
    \/ \E t \in Threads : Build(t)

SpecThreads == InitThreads /\ [][NextThreads]_vars

-----------------------------------------------------------------------------
(* Commands: orbit/commands/containers.py, orbit/commands/items.py *)

\* CONNECTION_ERROR_MSG, containers.py line 30, items.py line 38
CONNECTION_ERROR_MSG == <<"Failed to connect to Cosmos DB. Check connection string.">>

\* "Container '{container}' not found. Use 'orbit containers list' ..."
ContainerNotFoundMsg(container) == <<"Container not found", container>>

\* context_state as cli.py lines 28-39 create it when the module is imported:
\* no JSON, no --yes, and no output adapter (output is None)
context_state == [json |-> FALSE, yes |-> FALSE, output |-> FALSE]

\* main, cli.py lines 50-77, the root callback of the app: the flags are
\* stored in context_state and init_output() makes the output adapter
main(json, yes) == [json |-> json, yes |-> yes, output |-> TRUE]

\* What the success branch of a command does after the repository operation:
\* typer.echo of the messages echoed, then, when data is not <<>>,
\* context_state.output.render(data), which raises AttributeError when the
\* output adapter is None; the exception is raised inside the try block and
\* no except clause of a command catches it
render(ctx, echoed, data) ==
    IF data = <<>> \/ ctx.output
    THEN [output |-> echoed \o data, exit |-> 0, uncaught |-> "none"]
    ELSE [output |-> echoed, exit |-> 1, uncaught |-> "AttributeError"]

\* require_confirmation that goes on whatever the prompt answers (a mutant).
require_confirmation_ignores_answer(yes, answer) ==
    IF yes
    THEN [prompted |-> FALSE, proceed |-> TRUE, output |-> <<>>]
    ELSE [prompted |-> TRUE, proceed |-> TRUE, output |-> <<>>]

\* require_confirmation, confirmation.py lines 22-31.  yes is
\* context_state.yes, answer what prompt(message) returns when it is called.
require_confirmation(yes, answer) ==
    IF yes
    THEN [prompted |-> FALSE, proceed |-> TRUE, output |-> <<>>]
    ELSE IF ~answer
    THEN [prompted |-> TRUE, proceed |-> FALSE, output |-> <<<<"Aborted by user.">>>>]
    ELSE [prompted |-> TRUE, proceed |-> TRUE, output |-> <<>>]

\* OrbitSettings.load(), config.py lines 26-39: the settings are made from
\* the environment; a connection string together with a key or an endpoint
\* is refused ("Ambiguous auth configuration")
OrbitSettings_load(env) ==
    IF Truthy(env.connection_string) /\ (Truthy(env.key) \/ Truthy(env.endpoint))
    THEN Raised("CosmosAuthError", 0)
    ELSE Returned(env)

\* _get_repository, containers.py lines 33-60 and items.py lines 41-66:
\* OrbitSettings.load(), RepositoryFactory(settings) and the new factory's
\* get_container_repository().  ValueError and CosmosAuthError are reported
\* here and end the command (typer.Exit); anything else, the AttributeError
\* of the factory's constructor included, is raised into the command's try
\* block.  The outcome is looked up by what the three steps ended with.
commands_get_repository(env, connect) ==
    [k \in {"ok", "ValueError", "AttributeError"} \cup Taxonomy |->
        IF k = "ok"
        THEN [kind |-> "ok", output |-> <<>>, exc |-> "none"]
        ELSE IF k = "ValueError"
        THEN [kind |-> "exit", exc |-> "none",
              output |-> <<<<"Configuration error">>,
                           <<"Set the ORBIT_DATABASE_NAME environment variable">>>>]
        ELSE IF k = "CosmosAuthError"
        THEN [kind |-> "exit", exc |-> "none",
              output |-> <<<<"Authentication error">>,
                           <<"Set the ORBIT_COSMOS_CONNECTION_STRING environment variable">>>>]
        ELSE [kind |-> "raise", output |-> <<>>, exc |-> k]
    ][IF OrbitSettings_load(env).kind # "ok"
      THEN OrbitSettings_load(env).kind
      ELSE IF RepositoryFactory_init(env).kind # "ok"
      THEN RepositoryFactory_init(env).kind
      ELSE get_container_repository(None, env, connect, FreshHandle).result.kind]

\* The except clauses of a command: handlers maps each exception class the
\* command catches to the message it echoes before typer.Exit(1); any other
\* exception leaves the command uncaught (a traceback, exit status 1).
Dispatch(handlers, kind) ==
    IF kind \in DOMAIN handlers
    THEN [output |-> <<handlers[kind]>>, exit |-> 1, uncaught |-> "none"]
    ELSE [output |-> <<>>, exit |-> 1, uncaught |-> kind]

\* What a command did: its arguments, whether it prompted, the steps it took
\* in order, what it echoed, its exit status, the exception that left it
\* uncaught, what the repository operation ended with and the remote calls
\* it made, and the database after it.
Ran(cmd, a, prompted, steps, output, exit, uncaught, result, calls, db) ==
    [cmd |-> cmd, container |-> a.container, id |-> a.id, yes |-> a.yes,
     answer |-> a.answer, natural |-> a.natural, existed |-> a.existed,
     prompted |-> prompted, steps |-> steps, output |-> output, exit |-> exit,
     uncaught |-> uncaught, result |-> result, calls |-> calls,
     containers |-> db.containers, items |-> db.items]

\* The arguments of a command and what the database held before it
CliArgs(db, container, id, yes, answer, fault) ==
    [container |-> container, id |-> id, yes |-> yes, answer |-> answer,
     natural |-> fault = NoFault, existed |-> HasContainer(db.containers, container)]

\* raise typer.BadParameter(...) before the try block: the usage error is
\* printed and the exit status is 2
BadParameter(cmd, a, message, db) ==
    Ran(cmd, a, FALSE, <<"validate">>, <<<<message>>>>, 2, "none", "none", <<>>, db)

\* What the path given as --data leads to: no file, a file that is not JSON,
\* a directory, or a file that holds a JSON value
FileInputs ==
    { [kind |-> k, data |-> NotADict] : k \in {"missing", "invalid", "directory"} } \cup
    { [kind |-> "json", data |-> d] : d \in PayloadInputs }

\* _read_json_file, items.py lines 69-96: the three usage errors, and any
\* other error of the read (here: the path is a directory) not caught, so
\* that it leaves the command as a traceback
read_json_file(file) ==
    IF file.kind = "missing"
    THEN [kind |-> "BadParameter", message |-> "File not found"]
    ELSE IF file.kind = "invalid"
    THEN [kind |-> "BadParameter", message |-> "Invalid JSON in file"]
    ELSE IF file.kind = "directory"
    THEN [kind |-> "raise", message |-> "IsADirectoryError"]
    ELSE IF ~file.data.isdict
    THEN [kind |-> "BadParameter",
          message |-> "JSON must be a single object, not an array"]
    ELSE [kind |-> "ok", message |-> ""]

\* The try block of a command: repository = _get_repository(), the
\* repository operation (o: what it ends with), what the success branch ends
\* with (success: its output, exit status and uncaught exception), and the
\* except clauses.  pre: the steps before the try block; g: what
\* _get_repository() ends with.
TryBlock(cmd, a, prompted, pre, g, handlers, success, o, db) ==
    IF g.kind = "exit"
    THEN Ran(cmd, a, prompted, pre \o <<"_get_repository">>, g.output, 1, "none",
             "none", <<>>, db)
    ELSE IF g.kind = "raise"
    THEN LET d == Dispatch(handlers, g.exc) IN
         Ran(cmd, a, prompted, pre \o <<"_get_repository">>, d.output, d.exit,
             d.uncaught, "none", <<>>, db)
    ELSE LET d == IF o.result.kind = "ok"
                  THEN success
                  ELSE Dispatch(handlers, o.result.kind) IN
         Ran(cmd, a, prompted, pre \o <<"_get_repository", "repository">>,
             d.output, d.exit, d.uncaught, o.result.kind, o.calls,
             [containers |-> o.containers, items |-> o.items])

\* containers list, containers.py lines 100-133
containers_list(db, st, connect, ctx, fault) ==
    LET o == list_containers(db, fault)
        a == CliArgs(db, <<>>, "", FALSE, FALSE, fault) IN
    TryBlock("containers list", a, FALSE, <<>>,
                  commands_get_repository(st, connect),
             [CosmosConnectionError |-> CONNECTION_ERROR_MSG,
              CosmosResourceNotFoundError |-> <<"Database not found">>],
             IF ctx.json
             THEN render(ctx, <<>>, <<<<"{containers}", Cardinality(o.result.value)>>>>)
             ELSE IF o.result.value = {}
             THEN render(ctx, <<<<"No containers found">>>>, <<>>)
             ELSE render(ctx, <<>>, <<<<"Containers", Cardinality(o.result.value)>>>>),
             o, db)

\* containers create, containers.py lines 136-189
containers_create(db, st, connect, ctx, name, partition_key, throughput, fault1, fault2) ==
    LET o == create_container(db, name, partition_key, throughput, fault1, fault2)
        a == CliArgs(db, name, "", FALSE, FALSE, fault1) IN
    IF ~PathStartsWithSlash(partition_key)
    THEN BadParameter("containers create", a, "Partition key must start with '/'", db)
    ELSE TryBlock("containers create", a, FALSE, <<"validate">>,
                  commands_get_repository(st, connect),
                  [CosmosResourceExistsError |-> <<"Container already exists", name>>,
                   CosmosQuotaExceededError |-> <<"Throughput quota exceeded">>,
                   CosmosInvalidPartitionKeyError |-> <<"Invalid partition key">>,
                   CosmosConnectionError |-> CONNECTION_ERROR_MSG,
                   ValueError |-> <<"Invalid input">>],
                  IF ctx.json
                  THEN render(ctx, <<>>, <<<<"{container}", name, partition_key, throughput>>>>)
                  ELSE render(ctx, <<<<"Created container", name, partition_key,
                                      throughput>>>>, <<>>),
                  o, db)

\* containers delete, containers.py lines 192-210
containers_delete(db, st, connect, ctx, answer, name, fault) ==
    LET o == delete_container(db, name, fault)
        a == CliArgs(db, name, "", ctx.yes, answer, fault)
        q == require_confirmation(ctx.yes, answer) IN
    IF ~q.proceed
    THEN Ran("containers delete", a, q.prompted, <<"require_confirmation">>,
             q.output, 1, "none", "none", <<>>, db)
    ELSE TryBlock("containers delete", a, q.prompted, <<"require_confirmation">>,
                  commands_get_repository(st, connect),
                  [CosmosConnectionError |-> CONNECTION_ERROR_MSG],
                  IF ctx.json
                  THEN render(ctx, <<>>, <<<<"{container, status}", name, "deleted">>>>)
                  ELSE render(ctx, <<<<"Deleted container", name>>>>, <<>>),
                  o, db)

\* items create, items.py lines 131-178.  file is what --data leads to.
items_create(db, st, connect, ctx, container, file, partition_key, fault) ==
    LET o == create_item(db, container, file.data, partition_key, fault)
        a == CliArgs(db, container, file.data.id, FALSE, FALSE, fault) IN
    IF read_json_file(file).kind = "BadParameter"
    THEN BadParameter("items create", a, read_json_file(file).message, db)
    ELSE IF read_json_file(file).kind = "raise"
    THEN Ran("items create", a, FALSE, <<"validate">>, <<>>, 1,
             read_json_file(file).message, "none", <<>>, db)
    ELSE IF "id" \notin file.data.keys
    THEN BadParameter("items create", a, "Item must have 'id' field", db)
    ELSE TryBlock("items create", a, FALSE, <<"validate">>,
                  commands_get_repository(st, connect),
                  [CosmosDuplicateItemError |->
                       <<"Item already exists", file.data.id, container>>,
                   CosmosPartitionKeyMismatchError |-> <<"Partition key mismatch", partition_key>>,
                   CosmosResourceNotFoundError |-> ContainerNotFoundMsg(container),
                   CosmosConnectionError |-> CONNECTION_ERROR_MSG],
                  IF ctx.json
                  THEN render(ctx, <<>>, <<<<"{item, status}", file.data.id, "created">>>>)
                  ELSE render(ctx, <<<<"Created item", file.data.id, container>>>>,
                              <<<<"Item", file.data.id>>>>),
                  o, db)

\* items get, items.py lines 181-214
items_get(db, st, connect, ctx, container, item_id, partition_key, fault) ==
    LET o == get_item(db, container, item_id, partition_key, fault)
        a == CliArgs(db, container, item_id, FALSE, FALSE, fault) IN
    TryBlock("items get", a, FALSE, <<>>,
                  commands_get_repository(st, connect),
             [CosmosItemNotFoundError |-> <<"Item not found", item_id, container>>,
              CosmosPartitionKeyMismatchError |->
                  <<"Item not found with partition key", item_id, partition_key>>,
              CosmosResourceNotFoundError |-> ContainerNotFoundMsg(container),
              CosmosConnectionError |-> CONNECTION_ERROR_MSG],
             IF ctx.json THEN render(ctx, <<>>, <<<<"{item}", item_id>>>>)
             ELSE render(ctx, <<>>, <<<<"Item", item_id>>>>),
             o, db)

\* items update, items.py lines 217-263
items_update(db, st, connect, ctx, container, item_id, file, partition_key, fault) ==
    LET o == update_item(db, container, item_id, file.data, partition_key, fault)
        a == CliArgs(db, container, item_id, FALSE, FALSE, fault) IN
    IF read_json_file(file).kind = "BadParameter"
    THEN BadParameter("items update", a, read_json_file(file).message, db)
    ELSE IF read_json_file(file).kind = "raise"
    THEN Ran("items update", a, FALSE, <<"validate">>, <<>>, 1,
             read_json_file(file).message, "none", <<>>, db)
    ELSE IF "id" \notin file.data.keys
    THEN BadParameter("items update", a, "Item must have 'id' field", db)
    ELSE IF file.data.id # item_id
    THEN BadParameter("items update", a, "Item ID in JSON must match command parameter", db)
    ELSE TryBlock("items update", a, FALSE, <<"validate">>,
                  commands_get_repository(st, connect),
                  [CosmosPartitionKeyMismatchError |-> <<"Partition key mismatch", partition_key>>,
                   CosmosResourceNotFoundError |-> ContainerNotFoundMsg(container),
                   CosmosConnectionError |-> CONNECTION_ERROR_MSG],
                  IF ctx.json
                  THEN render(ctx, <<>>, <<<<"{item, status}", item_id, "updated">>>>)
                  ELSE render(ctx, <<<<"Updated item", item_id, container>>>>,
                              <<<<"Item", item_id>>>>),
                  o, db)

\* items delete, items.py lines 266-296
items_delete(db, st, connect, ctx, answer, container, item_id, partition_key, fault) ==
    LET o == delete_item(db, container, item_id, partition_key, fault)
        a == CliArgs(db, container, item_id, ctx.yes, answer, fault)
        q == require_confirmation(ctx.yes, answer) IN
    IF ~q.proceed
    THEN Ran("items delete", a, q.prompted, <<"require_confirmation">>,
             q.output, 1, "none", "none", <<>>, db)
    ELSE TryBlock("items delete", a, q.prompted, <<"require_confirmation">>,
                  commands_get_repository(st, connect),
                  [CosmosResourceNotFoundError |-> ContainerNotFoundMsg(container),
                   CosmosConnectionError |-> CONNECTION_ERROR_MSG],
                  IF ctx.json
                  THEN render(ctx, <<>>, <<<<"{container, item_id, status}", container,
                                            item_id, "deleted">>>>)
                  ELSE render(ctx, <<<<"Deleted item", item_id, container>>>>, <<>>),
                  o, db)

\* items list, items.py lines 299-332
items_list(db, st, connect, ctx, container, max_count, fault) ==
    LET o == list_items(db, container, max_count, fault)
        a == CliArgs(db, container, "", FALSE, FALSE, fault) IN
    TryBlock("items list", a, FALSE, <<>>,
                  commands_get_repository(st, connect),
             [CosmosResourceNotFoundError |-> ContainerNotFoundMsg(container),
              CosmosConnectionError |-> CONNECTION_ERROR_MSG],
             IF ctx.json
             THEN render(ctx, <<>>, <<<<"{count, items}", Cardinality(o.result.value)>>>>)
             ELSE IF o.result.value = {}
             THEN render(ctx, <<<<"No items found", container>>>>, <<>>)
             ELSE render(ctx, <<>>, <<<<"Items", Cardinality(o.result.value)>>>>),
             o, db)

\* The circumstances of a command's run: what the provider's connection does
\* (connect), the flag --json (json) and what the service does to the
\* repository operation's first remote call (fault).  A connection that fails
\* is tried with a service that does not, and the JSON output with neither
\* failing.
CliRuns ==
    { [connect |-> NoFault, json |-> FALSE, fault |-> f] : f \in Faults } \cup
    { [connect |-> Http503, json |-> FALSE, fault |-> NoFault],
      [connect |-> NoFault, json |-> TRUE, fault |-> NoFault] }

\* One run of a command: the process ends and the database keeps what the
\* command's repository operation left
RunCommand(r) ==
    /\ cli' = r
    /\ containers' = r.containers
    /\ items' = r.items
    /\ UNCHANGED <<last, factoryVars, th>>

\* orbit [--json] [--yes] containers ...: the commands of containers_app,
\* which cli.py line 95 adds to the app; the root callback main has run
ContainersList ==
    \E r \in CliRuns :
        RunCommand(containers_list(Db(containers, items), settings, r.connect,
                                   main(r.json, FALSE), r.fault))

ContainersCreate ==
    \E r \in CliRuns, n \in RepoNames, p \in PathInputs, f2 \in {NoFault, Http500} :
        RunCommand(containers_create(Db(containers, items), settings, r.connect,
                                     main(r.json, FALSE), n, p, DefaultThroughput,
                                     r.fault, f2))

ContainersDelete ==
    \E r \in CliRuns, y, ans \in BOOLEAN, n \in RepoNames :
        RunCommand(containers_delete(Db(containers, items), settings, r.connect,
                                     main(r.json, y), ans, n, r.fault))

\* The commands of items_app, which no line of cli.py adds to the app: they
\* run when items_app is invoked itself, and then no root callback has run
\* and context_state is as the import left it (no --json, no --yes, no
\* output adapter)
ItemsCreate ==
    \E r \in CliRuns, n \in RepoNames, d \in FileInputs, pk \in PkInputs :
        /\ ~r.json
        /\ RunCommand(items_create(Db(containers, items), settings, r.connect,
                                   context_state, n, d, pk, r.fault))

ItemsGet ==
    \E r \in CliRuns, n \in RepoNames, id \in ItemIds, pk \in PkInputs :
        /\ ~r.json
        /\ RunCommand(items_get(Db(containers, items), settings, r.connect,
                                context_state, n, id, pk, r.fault))

ItemsUpdate ==
    \E r \in CliRuns, n \in RepoNames, id \in ItemIds, d \in FileInputs,
       pk \in PkInputs :
        /\ ~r.json
        /\ RunCommand(items_update(Db(containers, items), settings, r.connect,
                                   context_state, n, id, d, pk, r.fault))

ItemsDelete ==
    \E r \in CliRuns, ans \in BOOLEAN, n \in RepoNames, id \in ItemIds,
       pk \in PkInputs :
        /\ ~r.json
        /\ RunCommand(items_delete(Db(containers, items), settings, r.connect,
                                   context_state, ans, n, id, pk, r.fault))

ItemsList ==
    \E r \in CliRuns, n \in RepoNames, m \in MaxCountInputs :
        /\ ~r.json
        /\ RunCommand(items_list(Db(containers, items), settings, r.connect,
                                 context_state, n, m, r.fault))

\* orbit demo, cli.py lines 85-89: the placeholder is rendered
Demo ==
    RunCommand(Ran("demo", CliArgs(Db(containers, items), <<>>, "", FALSE, FALSE, NoFault),
                   FALSE, <<>>, <<<<"{message, status}", "demo placeholder", "ok">>>>,
                   0, "none", "none", <<>>, Db(containers, items)))

\* orbit items ...: the app has the group containers (cli.py line 95) and the
\* command demo and no group items, so the arguments are refused as a usage
\* error before any command runs
OrbitItems ==
    \E n \in RepoNames, y \in BOOLEAN :
        RunCommand(Ran("orbit items",
                       CliArgs(Db(containers, items), n, "", y, FALSE, NoFault),
                       FALSE, <<>>, <<<<"No such command", "items">>>>,
                       2, "none", "none", <<>>, Db(containers, items)))

\* The environment of the process is set, the database is empty.  settings is
\* what the environment makes of OrbitSettings: a connection string or none, a
\* key or none; or, for settings of the kind the factory reads, a connection
\* string and a database name, each there or not
InitCli ==
    /\ InitRepository
    /\ settings \in
          { OrbitSettings(c, Absent, k) :
                c \in {Absent, Str(<<" ", "k", "=", "v">>)},
                k \in {Absent, Str(<<"k">>)} } \cup
          { SettingsWithDatabaseName(c, d) :
                c \in {Absent, Str(<<" ", "k", "=", "v">>)},
                d \in {Absent, Str(<<"d","b">>)} }
    /\ client = <<>>
    /\ providerCalls = <<>>
    /\ provided = {}
    /\ repos = {}
    /\ flast = <<>>
    /\ plast = <<>>
    /\ th = <<>>
    /\ cli = Ran("none", CliArgs(Db({}, {}), <<>>, "", FALSE, FALSE, NoFault), FALSE,
                 <<>>, <<>>, 0, "none", "none", <<>>, Db({}, {}))

NextCli ==
    \/ ContainersList
    \/ ContainersCreate
    \/ ContainersDelete
    \/ ItemsCreate
    \/ ItemsGet
    \/ ItemsUpdate
    \/ ItemsDelete
    \/ ItemsList
    \/ Demo
    \/ OrbitItems

SpecCli == InitCli /\ [][NextCli]_vars

-----------------------------------------------------------------------------
(* Properties of the repository operations *)

ItemOps == {"create_item", "get_item", "update_item", "delete_item", "list_items"}
PkOps == {"create_item", "get_item", "update_item", "delete_item"}
ValidationErrors == {"ValueError", "CosmosInvalidPartitionKeyError"}

\* A name of 1 to 255 characters, all letters, digits or hyphens
ProperName(name) ==
    /\ Len(name) \in 1..255
    /\ \A i \in 1..Len(name) : name[i] \in NameChars

LeadingSlash(path) == Len(path) >= 1 /\ path[1] = "/"

MentionsQuota(message) ==
    \E i \in 1..Len(message) :
        /\ i + 4 <= Len(message)
        /\ Lower(SubSeq(message, i, i + 4)) = <<"q","u","o","t","a">>

\* C1: every operation, however its remote call fails, returns normally or
\* raises one kind of the Error Taxonomy; no SDK exception reaches the caller.
C1_OnlyTaxonomyErrorsEscape ==
    last.op # "none" => last.result.kind \in Taxonomy \cup {"ok"}

\* C2: an invocation that local validation rejects makes no remote call, and
\* the listed bad arguments are rejected by local validation: a bad
\* partition-key path or an empty name for create_container, a bad payload,
\* an empty partition-key value or an empty container name for create_item,
\* a non-dict payload or an id mismatch for update_item, max_count <= 0 for
\* list_items.
C2_ValidationMakesNoRemoteCall ==
    LET rejected == last.result.kind \in ValidationErrors IN
    /\ rejected => last.calls = <<>> /\ last.exc = NoFault
    /\ (last.op = "create_container" /\ (last.name = <<>> \/ ~LeadingSlash(last.path)))
           => rejected
    /\ (last.op = "create_item"
            /\ (~last.item.isdict \/ "id" \notin last.item.keys
                    \/ last.pk = "" \/ last.name = <<>>))
           => rejected
    /\ (last.op = "update_item"
            /\ (~last.item.isdict \/ "id" \notin last.item.keys \/ last.item.id # last.id))
           => rejected
    /\ (last.op = "list_items" /\ last.max_count <= 0) => rejected

\* update_item with an id mismatch was rejected and made no remote call
C2_Witness ==
    /\ last.op = "update_item"
    /\ last.item.isdict /\ "id" \in last.item.keys /\ last.item.id # last.id
    /\ last.result.kind = "ValueError"
    /\ last.calls = <<>>

Deletes == {"delete_container", "delete_item"}

SameDelete(l1, l2) ==
    /\ l1.op \in Deletes /\ l2.op = l1.op
    /\ l1.name = l2.name /\ l1.id = l2.id /\ l1.pk = l2.pk
    /\ l1.natural /\ l2.natural

\* C5: a delete called twice in a row (the service not failing otherwise)
\* returns normally both times; a not-found answer to a delete is never an
\* error; every other failure of the delete call is.
C5_DeleteIdempotent ==
    /\ [](last.op \in Deletes =>
            /\ last.exc.cls = "SdkResourceNotFoundError" => last.result.kind = "ok"
            /\ (last.exc # NoFault /\ last.exc.cls # "SdkResourceNotFoundError")
                   => last.result.kind # "ok")
    /\ [][SameDelete(last, last') =>
            last.result.kind = "ok" /\ last'.result.kind = "ok"]_vars

\* a delete of something that is not there got the service's not-found
\* answer and returned normally
C5_Witness ==
    /\ last.op \in Deletes
    /\ last.natural
    /\ last.exc.cls = "SdkResourceNotFoundError"
    /\ last.calls # <<>>
    /\ last.result.kind = "ok"

SameCreate(l1, l2) ==
    /\ l1.op = "create_container" /\ l2.op = "create_container"
    /\ l1.name = l2.name /\ l1.path = l2.path
    /\ ProperName(l1.name) /\ LeadingSlash(l1.path)
    /\ l1.natural /\ l2.natural
    /\ ~l1.existed

\* C6: create_container(n, path) twice from a database without n: the first
\* call returns a descriptor with id n, the second raises
\* CosmosResourceExistsError, and the container stays in place.
C6_CreateTwice ==
    [][SameCreate(last, last') =>
          /\ last.result.kind = "ok"
          /\ last.result.value.id = last.name
          /\ last'.result.kind = "CosmosResourceExistsError"
          /\ containers' = containers
          /\ HasContainer(containers', last.name)]_vars

\* a create of a container that is there was refused and the container is
\* still there
C6_Witness ==
    /\ last.op = "create_container"
    /\ last.natural /\ last.existed
    /\ last.result.kind = "CosmosResourceExistsError"
    /\ HasContainer(containers, last.name)

\* C7: an item operation with an empty container name, or with an empty
\* partition-key value where it takes one, is rejected with ValueError before
\* any remote call.
C7_ItemOpsRejectEmpty ==
    (/\ last.op \in ItemOps
     /\ (last.name = <<>> \/ (last.op \in PkOps /\ last.pk = "")))
        => last.result.kind = "ValueError" /\ last.calls = <<>>

\* C9: with a valid name, create_container raises
\* CosmosInvalidPartitionKeyError before any remote call for every path
\* without a leading slash, and does not raise it for a path with one.
C9_PartitionKeyPath ==
    (last.op = "create_container" /\ ProperName(last.name)) =>
        /\ ~LeadingSlash(last.path) =>
              last.result.kind = "CosmosInvalidPartitionKeyError" /\ last.calls = <<>>
        /\ LeadingSlash(last.path) =>
              last.result.kind # "CosmosInvalidPartitionKeyError"

\* a path that has a slash but not at its start was rejected
C9_Witness ==
    /\ last.op = "create_container" /\ ProperName(last.name)
    /\ last.path = <<"k","/">>
    /\ last.result.kind = "CosmosInvalidPartitionKeyError"

\* C10: when the remote create of create_container fails: the SDK's
\* already-exists error gives CosmosResourceExistsError (whatever its
\* message); otherwise an HTTP error with status 429 or with a message that
\* mentions quota gives CosmosQuotaExceededError; every other HTTP error
\* gives CosmosConnectionError with the status code.
C10_CreateErrorMapping ==
    (/\ last.op = "create_container"
     /\ last.calls = <<"create_container">>
     /\ last.exc.cls \in SdkHttpClasses) =>
        IF last.exc.cls = "SdkResourceExistsError"
        THEN last.result.kind = "CosmosResourceExistsError"
        ELSE IF last.exc.status = 429 \/ MentionsQuota(last.exc.message)
        THEN last.result.kind = "CosmosQuotaExceededError"
        ELSE /\ last.result.kind = "CosmosConnectionError"
             /\ last.result.status = last.exc.status

\* the already-exists error whose message mentions quota
C10_Witness ==
    /\ last.op = "create_container"
    /\ last.exc = ExistsQuota
    /\ last.result.kind = "CosmosResourceExistsError"

\* C8: with a valid partition-key path, create_container raises ValueError
\* exactly for the names that are not 1 to 255 letters, digits and hyphens.
C8_NameValidation ==
    (last.op = "create_container" /\ LeadingSlash(last.path)) =>
        (last.result.kind = "ValueError" <=> ~ProperName(last.name))

\* C11: not-found is an error on every path but the deletes.  get_item of an
\* item that is not stored never returns normally and, when the service
\* answers, raises CosmosItemNotFoundError; get_container_properties of a
\* container that is not there never returns normally and, when the service
\* answers, raises CosmosResourceNotFoundError; an operation that got the
\* service's not-found answer and returned normally is a delete.
C11_NotFoundIsAnError ==
    /\ (last.op = "get_item" /\ ~last.had) =>
          /\ last.result.kind # "ok"
          /\ last.natural => last.result.kind = "CosmosItemNotFoundError"
    /\ (last.op = "get_container_properties" /\ ~last.existed) =>
          /\ last.result.kind # "ok"
          /\ last.natural => last.result.kind = "CosmosResourceNotFoundError"
    /\ (last.exc.cls = "SdkResourceNotFoundError" /\ last.result.kind = "ok") =>
          last.op \in Deletes

\* get_item in a container that is there, of an item that is not
C11_Witness ==
    /\ last.op = "get_item"
    /\ last.natural /\ last.existed /\ ~last.had
    /\ last.calls = <<"read_item">>
    /\ last.result.kind = "CosmosItemNotFoundError"

\* The condition an item operation handles by the class of the SDK exception
SpecialCase(l) ==
    \/ l.op = "create_item" /\ l.exc.cls = "SdkResourceExistsError"
    \/ l.op \in {"get_item", "delete_item"} /\ l.exc.cls = "SdkResourceNotFoundError"

\* C12: when the remote call of create_item, get_item, update_item or
\* delete_item fails with an HTTP error that is not the operation's special
\* case (duplicate for create, not-found for get and delete), status 400
\* gives CosmosPartitionKeyMismatchError and every other status gives
\* CosmosConnectionError with that status code.
C12_ItemHttpErrorMapping ==
    (last.op \in PkOps /\ last.exc.cls \in SdkHttpClasses /\ ~SpecialCase(last)) =>
        IF last.exc.status = 400
        THEN last.result.kind = "CosmosPartitionKeyMismatchError"
        ELSE /\ last.result.kind = "CosmosConnectionError"
             /\ last.result.status = last.exc.status

\* delete_item whose remote call failed with status 400
C12_Witness ==
    /\ last.op = "delete_item"
    /\ last.exc = Http400
    /\ last.calls = <<"delete_item">>
    /\ last.result.kind = "CosmosPartitionKeyMismatchError"

\* create_item with arguments that pass validation, on a container that is
\* there, the service not failing otherwise
ValidCreate(l) ==
    /\ l.op = "create_item" /\ l.natural /\ l.existed
    /\ l.item.isdict /\ "id" \in l.item.keys
    /\ l.pk # "" /\ l.name # <<>>

SameCreateItem(l1, l2) ==
    /\ ValidCreate(l1) /\ ValidCreate(l2)
    /\ l1.name = l2.name /\ l1.item = l2.item /\ l1.pk = l2.pk

\* C13: create_item of an item whose id is stored in the partition raises
\* CosmosDuplicateItemError and leaves the stored items as they are; of an
\* item whose id is not stored it returns the item and stores it; so the same
\* valid create_item twice in a row succeeds and then raises
\* CosmosDuplicateItemError.
C13_CreateItemDuplicate ==
    /\ [](ValidCreate(last) =>
            IF last.had
            THEN last.result.kind = "CosmosDuplicateItemError"
            ELSE last.result.kind = "ok" /\ last.result.value = last.item)
    /\ [][ValidCreate(last') =>
            IF last'.had
            THEN items' = items
            ELSE items' = items \cup {[c |-> last'.name, id |-> last'.item.id,
                                       pk |-> last'.pk, body |-> last'.item]}]_vars
    /\ [][(SameCreateItem(last, last') /\ ~last.had) =>
            /\ last.result.kind = "ok"
            /\ last'.result.kind = "CosmosDuplicateItemError"
            /\ items' = items]_vars

\* a create of a different payload under a stored id was refused and the
\* stored payload is the old one
C13_Witness ==
    /\ ValidCreate(last) /\ last.had
    /\ last.result.kind = "CosmosDuplicateItemError"
    /\ \E i \in items : /\ i.c = last.name /\ i.id = last.item.id /\ i.pk = last.pk
                        /\ i.body # last.item

\* update_item with arguments that pass validation, on a container that is
\* there, the service not failing otherwise
ValidUpdate(l) ==
    /\ l.op = "update_item" /\ l.natural /\ l.existed
    /\ l.item.isdict /\ "id" \in l.item.keys /\ l.item.id = l.id

\* C14: update_item is an upsert.  It never raises CosmosItemNotFoundError;
\* with valid arguments it makes the one create-or-replace call and returns
\* the item, whether the item was stored or not; the item then is the only
\* one stored under its id and partition, and get_item returns it.
C14_UpdateIsUpsert ==
    /\ [](last.op = "update_item" => last.result.kind # "CosmosItemNotFoundError")
    /\ [](ValidUpdate(last) =>
            /\ last.calls = <<"upsert_item">>
            /\ last.result.kind = "ok" /\ last.result.value = last.item
            /\ get_item(Db(containers, items), last.name, last.id, last.pk,
                        NoFault).result.kind = "ok"
            /\ get_item(Db(containers, items), last.name, last.id, last.pk,
                        NoFault).result.value = last.item)
    /\ [][ValidUpdate(last') =>
            items' = { i \in items : ~(i.c = last'.name /\ i.id = last'.id
                                           /\ i.pk = last'.pk) }
                        \cup {[c |-> last'.name, id |-> last'.id, pk |-> last'.pk,
                               body |-> last'.item]}]_vars

\* update_item of an item that was not stored created it
C14_Witness ==
    /\ ValidUpdate(last) /\ ~last.had
    /\ last.result.kind = "ok"
    /\ \E i \in items : /\ i.c = last.name /\ i.id = last.id /\ i.pk = last.pk
                        /\ i.body = last.item

\* A dict with an "id" key
GoodPayload(item) == item.isdict /\ "id" \in item.keys

\* C15: create_item raises ValueError for every payload that is not a dict or
\* has no "id"; update_item raises ValueError for every payload that is not a
\* dict, has no "id", or has an "id" other than item_id; a payload that passes
\* is not the cause of a ValueError: update_item then raises none, and
\* create_item raises none when the container name and the partition-key
\* value are not empty.
C15_PayloadValidation ==
    /\ (last.op = "create_item" /\ ~GoodPayload(last.item)) =>
          last.result.kind = "ValueError"
    /\ (last.op = "create_item" /\ GoodPayload(last.item)
            /\ last.pk # "" /\ last.name # <<>>) =>
          last.result.kind # "ValueError"
    /\ (last.op = "update_item"
            /\ (~GoodPayload(last.item) \/ last.item.id # last.id)) =>
          last.result.kind = "ValueError"
    /\ (last.op = "update_item" /\ GoodPayload(last.item) /\ last.item.id = last.id) =>
          last.result.kind # "ValueError"

\* create_item of a dict without "id" was rejected
C15_Witness ==
    /\ last.op = "create_item"
    /\ last.item.isdict /\ "id" \notin last.item.keys
    /\ last.pk # "" /\ last.name # <<>>
    /\ last.result.kind = "ValueError"

\* C16: list_items with a positive max_count returns at most max_count items.
C16_ListAtMostMaxCount ==
    (last.op = "list_items" /\ last.max_count >= 1 /\ last.result.kind = "ok") =>
        Cardinality(last.result.value) <= last.max_count

\* C17: list_items raises ValueError for max_count <= 0 without a query; for
\* max_count >= 1 it makes the one query call with max_item_count equal to
\* max_count, and with 100 when max_count is omitted.
C17_MaxCountPassedThrough ==
    last.op = "list_items" =>
        /\ last.max_count <= 0 =>
              /\ last.result.kind = "ValueError"
              /\ last.calls = <<>> /\ last.queries = <<>>
        /\ last.max_count >= 1 =>
              /\ last.result.kind # "ValueError"
              /\ last.calls = <<"query_items">>
              /\ last.queries = <<[query |-> "SELECT * FROM c",
                                   max_item_count |-> last.max_count]>>
        /\ last.omitted =>
              last.queries = <<[query |-> "SELECT * FROM c", max_item_count |-> 100]>>

\* list_items with max_count 2 queried with pages of 2
C17_Witness ==
    /\ last.op = "list_items"
    /\ last.max_count = 2 /\ ~last.omitted
    /\ last.queries = <<[query |-> "SELECT * FROM c", max_item_count |-> 2]>>
    /\ last.result.kind = "ok"

Mutating == {"create_container", "delete_container", "create_item", "update_item",
             "delete_item"}

\* The info record of an operation whose remote work succeeded, from the
\* identifiers of the request and the size of the result
SuccessRecord(l) ==
    CASE l.op = "list_containers" ->
             <<"info", <<"Listed containers", Cardinality(l.result.value)>>>>
      [] l.op = "create_container" ->
             <<"info", <<"Created container", l.name, l.path, DefaultThroughput>>>>
      [] l.op = "delete_container" -> <<"info", <<"Deleted container", l.name>>>>
      [] l.op = "get_container_properties" ->
             <<"info", <<"Retrieved properties for container", l.name>>>>
      [] l.op = "create_item" -> <<"info", <<"Created item", l.item.id, l.name>>>>
      [] l.op = "get_item" -> <<"info", <<"Retrieved item", l.id, l.name>>>>
      [] l.op = "update_item" -> <<"info", <<"Updated item", l.id, l.name>>>>
      [] l.op = "delete_item" -> <<"info", <<"Deleted item", l.id, l.name>>>>
      [] l.op = "list_items" ->
             <<"info", <<"Listed items", Cardinality(l.result.value), l.name>>>>

\* The error record of an operation that raised CosmosConnectionError, from
\* the identifiers of the request and the status code
FailureRecord(l) ==
    CASE l.op = "list_containers" ->
             <<"error", <<"Failed to list containers", l.result.status>>>>
      [] l.op = "create_container" ->
             <<"error", <<"Failed to create container", l.name, l.result.status>>>>
      [] l.op = "delete_container" ->
             <<"error", <<"Failed to delete container", l.name, l.result.status>>>>
      [] l.op = "get_container_properties" ->
             <<"error", <<"Failed to get properties for container", l.name,
                          l.result.status>>>>
      [] l.op = "create_item" ->
             <<"error", <<"Failed to create item", "", l.result.status>>>>
      [] l.op = "get_item" ->
             <<"error", <<"Failed to get item", l.id, l.result.status>>>>
      [] l.op = "update_item" ->
             <<"error", <<"Failed to update item", l.id, l.result.status>>>>
      [] l.op = "delete_item" ->
             <<"error", <<"Failed to delete item", l.id, l.result.status>>>>
      [] l.op = "list_items" ->
             <<"error", <<"Failed to list items", l.result.status>>>>

\* The info record of a delete that found nothing to delete
NothingToDelete(l) ==
    IF l.op = "delete_container"
    THEN <<"info", <<"Container not found during delete", l.name>>>>
    ELSE <<"info", <<"Item not found during delete", l.id>>>>

\* The event of a record names the entity the operation is about and its
\* container: the container for the container operations, the item id and
\* the container for the item operations
NamesEntityAndContainer(l, event) ==
    IF l.op \in {"create_container", "delete_container"}
    THEN Len(event) >= 2 /\ event[2] = l.name
    ELSE /\ Len(event) >= 3
         /\ event[2] = (IF l.op = "create_item" THEN l.item.id ELSE l.id)
         /\ event[3] = l.name

\* C23: a mutating operation that returns normally emits one info record
\* that names the entity and its container; and all the records of every
\* operation are built from the container name, the item id, the
\* partition-key path, the throughput, counts and status codes only: the
\* success record, the record of a delete that found nothing, the error
\* record with the status code, and for create_container the record of the
\* create when the read that follows it fails.
C23_LogsIdentifiersOnly ==
    last.op # "none" =>
        /\ (last.op \in Mutating /\ last.result.kind = "ok") =>
              /\ Len(last.logs) = 1
              /\ last.logs[1][1] = "info"
              /\ NamesEntityAndContainer(last, last.logs[1][2])
        /\ last.logs =
              IF last.result.kind = "ok"
              THEN IF last.exc = NoFault THEN <<SuccessRecord(last)>>
                   ELSE <<NothingToDelete(last)>>
              ELSE (IF last.op = "create_container" /\ Len(last.calls) = 2
                    THEN <<SuccessRecord(last)>> ELSE <<>>)
                   \o (IF last.result.kind = "CosmosConnectionError"
                       THEN <<FailureRecord(last)>> ELSE <<>>)

\* C27 as stated: an operation that passes validation issues exactly one
\* remote call, on success and on failure alike.
C27_ExactlyOneRemoteCall ==
    (last.op # "none" /\ last.result.kind \notin ValidationErrors) =>
        Len(last.calls) = 1

HasInfo(logs) == \E k \in 1..Len(logs) : logs[k][1] = "info"

\* C27 as amended: an operation that passes validation issues exactly one
\* remote call, except create_container, which issues the create and, when
\* the create succeeded, the read of the container's metadata: two calls
\* when it returns normally.  An operation other than create_container emits
\* an info record only when it returns normally; create_container emits its
\* info record exactly when the create succeeded, whether the read does or
\* not.
C27_OneRemoteCallButCreate ==
    (last.op # "none" /\ last.result.kind \notin ValidationErrors) =>
        /\ last.op # "create_container" => Len(last.calls) = 1
        /\ last.op = "create_container" =>
              /\ last.calls \in {<<"create_container">>, <<"create_container", "read">>}
              /\ last.result.kind = "ok" => last.calls = <<"create_container", "read">>
              /\ last.calls = <<"create_container">> => last.exc # NoFault
              /\ HasInfo(last.logs) <=> Len(last.calls) = 2
        /\ (last.op # "create_container" /\ HasInfo(last.logs)) => last.result.kind = "ok"

\* create_container returned normally after two remote calls
C27_Witness ==
    /\ last.op = "create_container"
    /\ last.result.kind = "ok"
    /\ last.calls = <<"create_container", "read">>
    /\ HasInfo(last.logs)

\* create_container whose create succeeded and whose read failed
ReadFailed(l) ==
    /\ l.op = "create_container"
    /\ l.calls = <<"create_container", "read">>
    /\ l.exc # NoFault

\* C30: create_container is not all-or-nothing.  When the create succeeded
\* and the read of the metadata fails, the info record of the create has
\* been emitted, the call raises CosmosQuotaExceededError (status 429, or a
\* message about quota) or else CosmosConnectionError, and the container
\* exists; the same create_container again then raises
\* CosmosResourceExistsError.  A create that succeeded is always followed
\* by the read.
C30_CreateNotAtomic ==
    /\ [](ReadFailed(last) =>
            /\ Len(last.logs) >= 1
            /\ last.logs[1] = <<"info", <<"Created container", last.name, last.path,
                                        DefaultThroughput>>>>
            /\ last.result.kind =
                  IF last.exc.status = 429 \/ MentionsQuota(last.exc.message)
                  THEN "CosmosQuotaExceededError"
                  ELSE "CosmosConnectionError"
            /\ HasContainer(containers, last.name))
    /\ []((last.op = "create_container" /\ last.result.kind = "ok") =>
            last.calls = <<"create_container", "read">>)
    /\ [][(/\ ReadFailed(last)
           /\ last'.op = "create_container" /\ last'.natural
           /\ last'.name = last.name /\ last'.path = last.path) =>
              last'.result.kind = "CosmosResourceExistsError"]_vars

-----------------------------------------------------------------------------
(* Properties of the factory *)

\* C3: every repository a factory has returned holds the factory's cached
\* client, so all repositories of one factory hold the same handle.
C3_RepositoriesShareCachedClient ==
    \A r \in repos :
        /\ client[r.factory] # None
        /\ r.client = client[r.factory]

\* a request on an already initialized factory returned a repository that
\* holds the handle cached before the request
C3_Witness ==
    /\ flast.result.kind = "ok"
    /\ flast.before # None
    /\ ~flast.invoked
    /\ flast.result.value.client = flast.before
    /\ \E r \in repos : r.factory = flast.factory

Initialized(f) == client[f] # None

\* C4: once a factory is initialized its cached handle never changes and it
\* never invokes the provider again; the provider made exactly one client for
\* it, on the factory's own request, and no two factories hold the same
\* handle.
C4_ProviderInvokedOnce ==
    /\ [](\A f \in Factories : Initialized(f) =>
            /\ { p \in provided : p.factory = f } = {[factory |-> f, handle |-> client[f]]}
            /\ \A g \in Factories \ {f} : client[g] # client[f])
    /\ [][\A f \in Factories :
            /\ Initialized(f) =>
                  client'[f] = client[f] /\ providerCalls'[f] = providerCalls[f]
            /\ (~Initialized(f) /\ client'[f] # None) =>
                  providerCalls'[f] = providerCalls[f] + 1]_vars

\* both factories are initialized, each by one provider invocation of its
\* own, and the last request was served without the provider
C4_Witness ==
    /\ \A f \in Factories : Initialized(f) /\ providerCalls[f] = 1
    /\ flast.before # None
    /\ ~flast.invoked
    /\ flast.result.kind = "ok"

\* C18: with no database name (None or empty) every repository request
\* raises the ValueError for the missing database name, whatever the
\* connection string is, without invoking the provider; the factory's client
\* stays uninitialized and the factory hands out no repository.
C18_MissingDatabaseName ==
    (/\ RepositoryFactory_init(settings).kind = "ok"
     /\ ~(settings.database_name.present /\ settings.database_name.text # <<>>)) =>
        /\ flast.op # "__init__" =>
              /\ flast.result.kind = "ValueError"
              /\ ~flast.invoked
              /\ flast.connect = NoFault
        /\ \A f \in Factories : client[f] = None /\ providerCalls[f] = 0
        /\ provided = {} /\ repos = {}

\* a request with a usable connection string and an empty database name
\* was refused
C18_Witness ==
    /\ flast.op = "get_item_repository"
    /\ settings.database_name = Str(<<>>)
    /\ settings.connection_string = Str(<<" ", "k", "=", "v">>)
    /\ flast.result.kind = "ValueError"
    /\ client[flast.factory] = None

\* The request before this state invoked the provider and the provider failed
ProviderFailed == flast.invoked /\ flast.result.kind # "ok"

\* C29: when the provider fails during a repository request, the request
\* raises the provider's own error unchanged (CosmosAuthError or
\* CosmosConnectionError, as get_client raises it for the configured
\* connection string and the outcome of the connection), returns no
\* repository, and leaves the factory uninitialized; and every request on an
\* uninitialized factory with a database name invokes the provider (again).
C29_ProviderFailureLeavesFactoryUninitialized ==
    /\ [](ProviderFailed =>
            /\ flast.result.kind \in {"CosmosAuthError", "CosmosConnectionError"}
            /\ flast.result =
                  get_client(settings.connection_string, flast.connect, None).result
            /\ flast.before = None
            /\ client[flast.factory] = None)
    /\ [][(ProviderFailed' /\ vars' # vars) =>
              /\ repos' = repos
              /\ client' = client
              /\ provided' = provided]_vars
    /\ [][\A f \in Factories :
              (/\ client[f] = None /\ Truthy(settings.database_name)
               /\ vars' # vars /\ flast'.factory = f) =>
                  /\ flast'.invoked
                  /\ providerCalls'[f] = providerCalls[f] + 1]_vars

\* a factory whose first request failed in the provider served its second
\* request with a new client
C29_Witness ==
    /\ flast.result.kind = "ok" /\ flast.invoked
    /\ providerCalls[flast.factory] = 2
    /\ client[flast.factory] # None
    /\ \E r \in repos : r.factory = flast.factory /\ r.client = client[flast.factory]

-----------------------------------------------------------------------------
(* Properties of the factory under threads *)

\* The threads whose request failed in the provider
FailedInProvider == {t \in Threads : th.pc[t] = "failed" /\ th.error[t] # "ValueError"}

\* The handles the provider has made
Handles == {p.handle : p \in provided}

\* C28: the lazy initialization is a check-then-set of several statements.
\* With one mutex around _get_client the provider makes at most one client,
\* it is invoked once for that client and once for each request it failed,
\* never again once the client is cached, and every repository and every
\* returned handle is the cached one.  With or without the mutex the
\* factory's cached client is the handle written last, and every repository
\* holds a handle the provider made.
C28_LazyInitCheckThenSet ==
    /\ [](th.guarded =>
            /\ Cardinality(provided) <= 1
            /\ providerCalls[Shared] = Cardinality(provided) + Cardinality(FailedInProvider)
            /\ Len(th.writes) <= 1
            /\ \A r \in repos : r.client = client[Shared]
            /\ \A t \in Threads :
                  th.pc[t] \in {"build", "done"} => th.ret[t] = client[Shared])
    /\ [](/\ Len(th.writes) > 0 => client[Shared] = th.writes[Len(th.writes)]
          /\ Len(th.writes) = 0 => client[Shared] = None
          /\ \A r \in repos : r.client \in Handles)
    /\ [][(th.guarded /\ client[Shared] # None) =>
             /\ providerCalls' = providerCalls
             /\ client' = client]_vars

\* without the mutex two threads both found the factory uninitialized, the
\* provider was invoked twice, the two repositories hold different handles
\* and the factory keeps the one written last
C28_Witness ==
    /\ ~th.guarded
    /\ providerCalls[Shared] = 2
    /\ \E t1, t2 \in Threads :
          /\ th.pc[t1] = "done" /\ th.pc[t2] = "done"
          /\ th.local[t1] # None /\ th.local[t2] # None
          /\ th.ret[t1] # th.ret[t2]
          /\ th.writes = <<th.local[t1], th.local[t2]>>
          /\ client[Shared] = th.local[t2]
          /\ {[factory |-> Shared, client |-> th.ret[t1]],
              [factory |-> Shared, client |-> th.ret[t2]]} \subseteq repos

-----------------------------------------------------------------------------
(* Properties of the commands *)

DeleteCommands == {"containers delete", "items delete"}
ItemCommands == {"items create", "items get", "items update", "items delete", "items list"}

\* The command got as far as its repository operation
Invoked(c) == Len(c.steps) > 0 /\ c.steps[Len(c.steps)] = "repository"

\* C24: whenever the repository operation of a command raises an Error
\* Taxonomy kind (ValueError included), the command catches it, echoes one
\* message and exits with a non-zero status; no such error leaves a command
\* uncaught.
C24_EveryErrorCaught ==
    (Invoked(cli) /\ cli.result \in Taxonomy) =>
        /\ cli.uncaught = "none"
        /\ Len(cli.output) = 1
        /\ cli.exit # 0

\* C25: an item command whose repository operation ran against a container
\* that does not exist (valid arguments, no injected failure) echoes the
\* "Container '<name>' not found" message and exits with status 1.
C25_MissingContainerReported ==
    (/\ cli.cmd \in ItemCommands /\ Invoked(cli)
     /\ cli.natural /\ ~cli.existed /\ cli.container # <<>>
     /\ cli.result # "ValueError") =>
        /\ cli.output = <<ContainerNotFoundMsg(cli.container)>>
        /\ cli.exit = 1

\* C26: in the delete commands confirmation is the first step; the
\* repository is obtained and its delete operation invoked only if the
\* skip-confirmation flag is set or the prompt returned true; when the prompt
\* returns false the command echoes the abort message and exits with status
\* 1, having obtained no repository and made no remote call, and the
\* database is as before; with the flag set the prompt is never called; and
\* no other command, and so no repository operation, prompts.
C26_ConfirmationBeforeDelete ==
    /\ [](cli.cmd \in DeleteCommands =>
            /\ cli.steps[1] = "require_confirmation"
            /\ Len(cli.steps) > 1 => (cli.yes \/ (cli.prompted /\ cli.answer))
            /\ cli.prompted <=> ~cli.yes
            /\ (~cli.yes /\ ~cli.answer) =>
                  /\ cli.steps = <<"require_confirmation">>
                  /\ cli.output = <<<<"Aborted by user.">>>>
                  /\ cli.exit = 1
                  /\ cli.result = "none" /\ cli.calls = <<>>)
    /\ [](cli.cmd \notin DeleteCommands => ~cli.prompted)
    /\ [][(cli'.cmd \in DeleteCommands /\ ~cli'.yes /\ ~cli'.answer) =>
             (containers' = containers /\ items' = items)]_vars

\* a delete command on an existing container was declined at the prompt and
\* left the container in place
C26_Witness ==
    /\ cli.cmd = "containers delete"
    /\ ~cli.yes /\ cli.prompted /\ ~cli.answer
    /\ cli.existed /\ HasContainer(containers, cli.container)
    /\ cli.exit = 1

-----------------------------------------------------------------------------
(* Properties of the provider *)

\* Whitespace only (str.isspace() holds of every character)
Blank(text) == \A i \in 1..Len(text) : text[i] \in Whitespace

\* C19: get_client raises CosmosAuthError "not provided" for an absent
\* connection string and CosmosAuthError "is empty" for an empty or
\* whitespace-only one, in both cases without a connect attempt; the connect
\* attempt is made exactly for the strings that have a character that is not
\* whitespace.
C19_NoAttemptWithoutConnectionString ==
    plast.op = "get_client" =>
        /\ ~plast.connection_string.present =>
              /\ plast.result.kind = "CosmosAuthError"
              /\ plast.message[1] = "Connection string not provided"
        /\ (plast.connection_string.present /\ Blank(plast.connection_string.text)) =>
              /\ plast.result.kind = "CosmosAuthError"
              /\ plast.message[1] = "Connection string is empty"
        /\ plast.attempted <=>
              (plast.connection_string.present /\ ~Blank(plast.connection_string.text))
        /\ ~plast.attempted => plast.connect = NoFault /\ plast.logs = <<>>

\* a connection string of whitespace only, a space and a vertical tab, was
\* refused without an attempt
C19_Witness ==
    /\ plast.op = "get_client"
    /\ plast.connection_string = Str(<<" ", "U+000B">>)
    /\ plast.result.kind = "CosmosAuthError"
    /\ ~plast.attempted

MentionsNetwork(message) ==
    \E i \in 1..Len(message), j \in 1..Len(message) :
        Lower(SubSeq(message, i, j)) \in {<<"c","o","n","n","e","c","t","i","o","n">>,
                                          <<"n","e","t","w","o","r","k">>}

\* C20: a failed connect attempt is raised as CosmosAuthError or
\* CosmosConnectionError and as nothing else: a ValueError gives
\* CosmosAuthError (malformed) whatever its message; an HTTP error gives
\* CosmosAuthError for status 401 and CosmosConnectionError for every other
\* status; any other exception gives CosmosConnectionError when its message
\* mentions a connection or a network in any case of letters, and
\* CosmosAuthError otherwise.
C20_ConnectFailureMapping ==
    (plast.op = "get_client" /\ plast.attempted /\ plast.connect # NoFault) =>
        /\ plast.result.kind \in {"CosmosAuthError", "CosmosConnectionError"}
        /\ plast.result.kind =
              IF plast.connect.cls = "ValueError" THEN "CosmosAuthError"
              ELSE IF plast.connect.cls \in SdkHttpClasses
              THEN IF plast.connect.status = 401 THEN "CosmosAuthError"
                   ELSE "CosmosConnectionError"
              ELSE IF MentionsNetwork(plast.connect.message) THEN "CosmosConnectionError"
              ELSE "CosmosAuthError"
        /\ plast.connect.cls = "ValueError" =>
              plast.message[1] = "Malformed connection string"

\* an exception whose message spells NETWORK with the Kelvin sign was raised
\* as CosmosConnectionError
C20_Witness ==
    /\ plast.op = "get_client"
    /\ plast.connect = SdkError("Exception", 0, <<"N","E","T","W","O","R","U+212A">>)
    /\ plast.result.kind = "CosmosConnectionError"
    /\ plast.message[1] = "Network error connecting to Cosmos DB"

\* A connection string that configures a secret: present and not blank
Secret(cs) == cs.present /\ ~Blank(cs.text)

\* C21: the log records of the provider do not depend on the secret.  A call
\* without a secret logs nothing; a call with one logs the one fixed info
\* record, on success and on every failure, and the call with any other
\* secret and the same outcome of the connect attempt logs the same records.
C21_LogsIndependentOfSecret ==
    plast.op = "get_client" =>
        /\ ~Secret(plast.connection_string) => plast.logs = <<>>
        /\ Secret(plast.connection_string) =>
              /\ plast.logs = <<<<"info", <<"Initializing connection string auth strategy">>>>>>
              /\ \A other \in { cs \in ProviderStrings : Secret(cs) } :
                    get_client(other, plast.connect, FreshHandle).logs = plast.logs

\* a call whose connect attempt failed with an error that echoes the secret
\* logged the fixed record only
C21_Witness ==
    /\ plast.op = "get_client"
    /\ Secret(plast.connection_string)
    /\ plast.connect = EchoParse(plast.connection_string)
    /\ plast.result.kind = "CosmosAuthError"
    /\ plast.logs = <<<<"info", <<"Initializing connection string auth strategy">>>>>>

\* C22: the message of an error raised by get_client is fixed text only; no
\* text of the exception that the connect attempt raised is part of it.
C22_MessageOnlyFixedText ==
    (plast.op = "get_client" /\ plast.result.kind # "ok") => plast.message[2] = <<>>

====
